---- MODULE Spec2Model ----
(***************************************************************************)
(* State-machine model of yt_dlp/extractor/soundcloud.py: the client-id    *)
(* lifecycle (_initialize_pre_login, _download_json, _update_client_id),   *)
(* the OAuth session token (_verify_oauth_token, _perform_login,           *)
(* _real_initialize), the format selector (_is_requested) and the format   *)
(* collection of _extract_info_dict.                                       *)
(***************************************************************************)
EXTENDS Integers, Sequences, FiniteSets, TLC

VARIABLES
    cfg,        \* session configuration: login info, cookie, formats argument, key under test
    cache,      \* cache entry ('soundcloud', 'client_id'): None or an id
    HEADERS,    \* SoundcloudBaseIE._HEADERS (class attribute): its Authorization token or None
    warnings,   \* set of warnings reported so far in the session
    probes,     \* token-verification probes sent so far, in order
    phase,      \* per extractor instance: position in initialize()/extraction
    CLIENT_ID,  \* per extractor instance: self._CLIENT_ID
    dj,         \* per extractor instance: frame of the running _download_json call
    log,        \* per extractor instance: events of the running _download_json call
    ex,         \* per extractor instance: frame of the running _extract_info_dict call
    sel         \* result of the last _is_requested evaluation

vars == <<cfg, cache, HEADERS, warnings, probes, phase, CLIENT_ID, dj, log, ex, sel>>

-----------------------------------------------------------------------------
(* Bounds *)

NInst == 2          \* extractor instances alive in the session
MaxScripts == 2     \* <script src> tags on the bootstrap page
MaxTrans == 2       \* transcodings in one payload
MaxPatterns == 2    \* patterns in the formats argument
MaxErrors == 2      \* members of an 'errors' list
MaxPages == 3       \* pages of a collection
MaxItems == 2       \* items on one page
MaxCount == 1       \* the largest value of a counter of a payload
MaxResults == 3     \* the largest small number of results a search asks for

Inst == 1..NInst

-----------------------------------------------------------------------------
(* Values *)

None == "None"
DEFAULT_CLIENT_ID == "a3e059563d7fd3372b49b37f00a00bcf"
FreshIds == {"idA", "idB"}
Ids == {DEFAULT_CLIENT_ID} \cup FreshIds
Unset == "unset"

Tokens == {"tokP", "tokC"}
AuthStatuses == {401, 403}
Statuses == {401, 403, 429, 502}

WInvalidToken == "Provided authorization token is invalid. Continuing as guest"
WRateLimit == "You have reached the API rate limit"
WError == "error_to_compat_str(e)"

EUnableClientId == "Unable to extract client id"
EWebpage == "Unable to download webpage"
EHttp == "HTTPError"
ENetwork == "TransportError"
ELogin == "Login using username and password is not currently supported"
EGeo == "geo restricted"

-----------------------------------------------------------------------------
(* Strings that are matched or classified are sequences of characters. *)

S_http == <<"h","t","t","p">>
S_hls == <<"h","l","s">>
S_hls_aes == <<"h","l","s","-","a","e","s">>
S_aac == <<"a","a","c">>
S_mp3 == <<"m","p","3">>
S_opus == <<"o","p","u","s">>
S_default == <<"d","e","f","a","u","l","t">>
US == <<"_">>
NL == "\n"

http_aac == S_http \o US \o S_aac
hls_aac == S_hls \o US \o S_aac
http_opus == S_http \o US \o S_opus
hls_opus == S_hls \o US \o S_opus
http_mp3 == S_http \o US \o S_mp3
hls_mp3 == S_hls \o US \o S_mp3

\* _DEFAULT_FORMATS
DEFAULT_FORMATS == <<http_aac, hls_aac, http_opus, hls_opus, http_mp3, hls_mp3>>

Range(s) == {s[n] : n \in 1..Len(s)}

-----------------------------------------------------------------------------
(* FormatSelector: _is_requested                                            *)

\* characters re.escape prefixes with a backslash
ReSpecialChars ==
    {"(", ")", "[", "]", "{", "}", "?", "*", "+", "-", "|", "^", "$", "\\", ".", "&", "~", "#", " ", NL}

\* re.escape(pattern)
RECURSIVE ReEscape(_)
ReEscape(p) ==
    IF p = <<>> THEN <<>>
    ELSE (IF Head(p) \in ReSpecialChars THEN <<"\\", Head(p)>> ELSE <<Head(p)>>)
         \o ReEscape(Tail(p))

\* s.replace(r'\*', r'.*')
RECURSIVE ReplaceEscapedStar(_)
ReplaceEscapedStar(s) ==
    IF s = <<>> THEN <<>>
    ELSE IF Len(s) >= 2 /\ s[1] = "\\" /\ s[2] = "*"
         THEN <<".", "*">> \o ReplaceEscapedStar(SubSeq(s, 3, Len(s)))
         ELSE <<Head(s)>> \o ReplaceEscapedStar(Tail(s))

\* '|'.join(strs) for a sequence of strings
RECURSIVE JoinBar(_)
JoinBar(strs) ==
    IF strs = <<>> THEN <<>>
    ELSE IF Len(strs) = 1 THEN strs[1]
    ELSE strs[1] \o <<"|">> \o JoinBar(Tail(strs))

RECURSIVE MapReEscape(_)
MapReEscape(strs) ==
    IF strs = <<>> THEN <<>> ELSE <<ReEscape(Head(strs))>> \o MapReEscape(Tail(strs))

\* the regex source one configured pattern contributes
PatternSource(pattern) ==
    IF pattern # S_default
    THEN ReplaceEscapedStar(ReEscape(pattern))
    ELSE JoinBar(MapReEscape(DEFAULT_FORMATS))

\* self._configuration_arg('formats', ['default'], ie_key=SoundcloudIE)
ConfigurationArgFormats(c) == IF c.given THEN c.pats ELSE <<S_default>>

RECURSIVE SetToSeq(_)
SetToSeq(S) ==
    IF S = {} THEN <<>>
    ELSE LET x == CHOOSE y \in S : TRUE IN <<x>> \o SetToSeq(S \ {x})

\* r'|'.join(set(... for pattern in ...))
RegexSource(c) ==
    JoinBar(SetToSeq({PatternSource(p) : p \in Range(ConfigurationArgFormats(c))}))

(* re.compile: the source is read left to right; a backslash makes the next
   character a literal, '.' is the any-character class (it does not match a
   line feed), '*' repeats the atom before it, '|' separates alternatives. *)
ReLit(c) == [cls |-> "lit", c |-> c, star |-> FALSE]
ReDot == [cls |-> "dot", c |-> ".", star |-> FALSE]
ReBar == [cls |-> "bar", c |-> "|", star |-> FALSE]

\* s[k] follows an odd run of backslashes: it is taken literally
ReEscaped(s, k) ==
    Cardinality({m \in 1..(k - 1) : \A n \in m..(k - 1) : s[n] = "\\"}) % 2 = 1

\* s[k] is the backslash that escapes s[k + 1]
ReEscaper(s, k) == s[k] = "\\" /\ ~ReEscaped(s, k) /\ k < Len(s)

\* s[k] is a '*' that repeats the atom before it
ReRepeat(s, k) == k > 1 /\ k <= Len(s) /\ s[k] = "*" /\ ~ReEscaped(s, k)

\* the atom s[k] stands for
ReAtom(s, k) ==
    LET atom == IF ReEscaped(s, k) THEN ReLit(s[k])
                ELSE IF s[k] = "." THEN ReDot
                ELSE IF s[k] = "|" THEN ReBar
                ELSE ReLit(s[k])
    IN [atom EXCEPT !.star = ReRepeat(s, k + 1)]

\* the atoms of a source, in order
ReTokens(s) ==
    LET at == SelectSeq([k \in 1..Len(s) |-> k],
                        LAMBDA k : ~ReEscaper(s, k) /\ ~ReRepeat(s, k))
    IN [n \in 1..Len(at) |-> ReAtom(s, at[n])]

\* the alternatives of a token sequence: its maximal runs without a '|'
ReAlternatives(toks) ==
    LET bars == {0, Len(toks) + 1} \cup {k \in 1..Len(toks) : toks[k].cls = "bar"}
    IN {SubSeq(toks, a + 1, b - 1) :
          <<a, b>> \in {ab \in bars \X bars :
                          /\ ab[1] < ab[2]
                          /\ \A k \in bars : ~(ab[1] < k /\ k < ab[2])}}

ReAccepts(atom, ch) == IF atom.cls = "dot" THEN ch # NL ELSE ch = atom.c

\* does atoms[i..] match key[j..] to its end
RECURSIVE ReMatchFrom(_, _, _, _)
ReMatchFrom(atoms, key, i, j) ==
    IF i > Len(atoms) THEN j > Len(key)
    ELSE IF atoms[i].star
         THEN \/ ReMatchFrom(atoms, key, i + 1, j)
              \/ /\ j <= Len(key)
                 /\ ReAccepts(atoms[i], key[j])
                 /\ ReMatchFrom(atoms, key, i, j + 1)
         ELSE /\ j <= Len(key)
              /\ ReAccepts(atoms[i], key[j])
              /\ ReMatchFrom(atoms, key, i + 1, j + 1)

\* mutant: re.compile(source).match(key), a match of a prefix of the key
FullMatchPrefix(source, key) ==
    \E alt \in ReAlternatives(ReTokens(source)) :
        \E n \in 0..Len(key) : ReMatchFrom(alt, SubSeq(key, 1, n), 1, 1)

\* re.compile(source).fullmatch(key) is not None
FullMatch(source, key) ==
    \E alt \in ReAlternatives(ReTokens(source)) : ReMatchFrom(alt, key, 1, 1)

\* mutant: the gate lets every identifier through
IsRequestedAlways(c, identifier) == TRUE

\* self._is_requested(identifier), truthiness of the match
IsRequested(c, identifier) == FullMatch(RegexSource(c), identifier)


-----------------------------------------------------------------------------
(* Payloads, requests and results                                           *)

\* a decoded JSON response; the fields a caller does not read stay blank
NoErrors == [given |-> FALSE, list |-> <<>>]
\* a page URL is the number of the page it leads to and what tells it from other URLs
NoHref == <<0, "none">>
FirstHref == <<1, "first">>
NoPayload == [downloadable |-> FALSE, policy |-> None, transcodings |-> <<>>, url |-> None,
              id |-> FALSE, errors |-> NoErrors, collection |-> <<>>, next_href |-> NoHref]
UrlPayload(u) == [NoPayload EXCEPT !.url = u]

(* a raw transcoding of info['media']['transcodings']: url is the list of the
   '/'-separated parts of t['url'] after the scheme, protocol is
   t['format']['protocol'], preset the '_'-separated tokens of t['preset'],
   mime is t['format']['mime_type']; an absent field is empty *)
Transcoding(url, protocol, preset, mime, snipped) ==
    [url |-> url, protocol |-> protocol, preset |-> preset, mime |-> mime, snipped |-> snipped]

S_progressive == <<"p","r","o","g","r","e","s","s","i","v","e">>
S_encrypted_hls == <<"e","n","c","r","y","p","t","e","d">> \o <<"-">> \o S_hls
S_host == <<"a","p","i">>
S_stream == <<"s","t","r","e","a","m">>
S_preview == <<"p","r","e","v","i","e","w">>

T_http_mp3 == Transcoding(<<S_host, S_stream, S_progressive>>, S_progressive, <<S_mp3, <<"1">>>>, "audio/mpeg", FALSE)
T_hls_opus == Transcoding(<<S_host, S_stream, S_hls>>, S_hls, <<S_opus, <<"0">>>>, "audio/ogg", FALSE)
T_hls_aes_aac == Transcoding(<<S_host, S_stream, S_encrypted_hls>>, S_encrypted_hls, <<S_aac, <<"1">>>>, "audio/mp4", FALSE)
T_preview_mp3 == Transcoding(<<S_host, S_preview, S_hls>>, S_hls, <<S_mp3, <<"0">>>>, "audio/mpeg", TRUE)

Transcodings == {T_http_mp3, T_hls_aes_aac}
TransLists == UNION {[1..n -> Transcodings] : n \in 0..MaxTrans}

\* the track payloads the platform may serve
InfoPayloads ==
    {[NoPayload EXCEPT !.id = TRUE, !.downloadable = d, !.policy = p, !.transcodings = ts] :
        d \in BOOLEAN, p \in {"ALLOW", "BLOCK"}, ts \in TransLists}

\* the error_message members of an 'errors' list
M_not_found == <<"n","o","t"," ","f","o","u","n","d">>
M_gone == <<"g","o","n","e">>
ErrorMessages == {M_not_found, M_gone}
ErrorLists == UNION {[1..n -> ErrorMessages] : n \in 0..MaxErrors}

\* the payloads with an 'errors' list the resolve endpoint may serve, with or without 'id'
ErrorPayloads == {[NoPayload EXCEPT !.errors = [given |-> TRUE, list |-> es], !.id = b] : es \in ErrorLists, b \in BOOLEAN}

\* the items of page p: each has an id; the first may lack a permalink_url
PageItems(p) ==
    {[j \in 1..n |-> [id |-> <<p, 0>>, permalink |-> (j > 1 \/ b)]] :
        n \in 0..MaxItems, b \in BOOLEAN}

\* what tells the continuation URLs served on page p from one another
HrefTags(p) == IF p = 1 THEN {"a", "b"} ELSE {"a"}

\* item j of a page has its own id
Numbered(p, items) == [j \in 1..Len(items) |-> [items[j] EXCEPT !.id = <<p, j>>]]

\* the pages the platform may serve at a page URL: the last page has no next_href
PagePayloads(href) ==
    {[NoPayload EXCEPT !.collection = Numbered(href[1], items), !.next_href = nx] :
        items \in PageItems(href[1]),
        nx \in {NoHref} \cup (IF href[1] < MaxPages
                               THEN {<<href[1] + 1, t>> : t \in HrefTags(href[1])}
                               ELSE {})}

\* an item of a search page: empty ({}), or a track with its policy
SearchItemKinds == {"empty", "ALLOW", "BLOCK"}

\* the pages the search endpoint may serve at a page URL
SearchPayloads(href) ==
    {[NoPayload EXCEPT !.collection = [j \in 1..Len(kinds) |-> [id |-> <<href[1], j>>, kind |-> kinds[j]]],
                       !.next_href = nx] :
        kinds \in UNION {[1..m -> SearchItemKinds] : m \in 0..MaxItems},
        nx \in {NoHref} \cup (IF href[1] < MaxPages THEN {<<href[1] + 1, "a">>} ELSE {})}

\* what the resolve endpoint may serve for a playlist, user or station locator
ResolvePayloads == ErrorPayloads \cup {[NoPayload EXCEPT !.id = TRUE]}

\* the 'url' / 'redirectUri' member of a JSON answer: a URL, an empty string, or absent
PayloadUrls == {"u1", "u2", "", None}

\* the arguments of one _download_json call: URL, the caller's query
\* (secret_token, and a client_id when the caller put one) and headers
Request(kind, url, secret, qcid, hdr) ==
    [kind |-> kind, url |-> url, secret |-> secret, qcid |-> qcid, hdr |-> hdr]
NoRequest == Request(None, None, None, None, None)

\* what _download_json hands back: a payload, False, the implicit None, or an exception
NoResult == [t |-> "none", v |-> NoPayload, err |-> None, status |-> 0]
Returned(v) == [NoResult EXCEPT !.t = "value", !.v = v]
ReturnedFalse == [NoResult EXCEPT !.t = "False"]
ReturnedNone == [NoResult EXCEPT !.t = "None"]
Raised(err, status) == [NoResult EXCEPT !.t = "raise", !.err = err, !.status = status]

IdleDj == [pc |-> "idle", req |-> NoRequest, nonFatal |-> FALSE, iter |-> 0,
           page |-> None, anyId |-> FALSE, found |-> None, res |-> NoResult]

\* events of a _download_json call
Event(e, cid, req, status, got) ==
    [e |-> e, cid |-> cid, url |-> req.url, secret |-> req.secret, hdr |-> req.hdr,
     status |-> status, got |-> got]
Did(e, cid) == Event(e, cid, NoRequest, 0, NoPayload)

RestPhases == {"new", "ready", "failed"}

\* extractions run one at a time: an instance moves only while no other is mid-operation
Turn(i) == \A j \in Inst \ {i} : phase[j] \in RestPhases

-----------------------------------------------------------------------------
(* CredentialStore: _store_client_id, _update_client_id, _download_json     *)

\* mutant: nothing is written to the cache
StoreClientIdDropped(client_id) == None

\* self.cache.store('soundcloud', 'client_id', client_id)
StoreClientId(client_id) == client_id

\* mutant: the cached value is taken as it is, without the default
InitializePreLoginNoDefault(cached) == cached

\* self.cache.load('soundcloud', 'client_id') or 'a3e0...'
InitializePreLoginValue(cached) == IF cached = None THEN DEFAULT_CLIENT_ID ELSE cached

\* mutant: a scan that finds nothing falls back to the default id
ScanScriptsWithFallback(scripts) ==
    IF \E k \in DOMAIN scripts : scripts[k] \in {"idA", "idB"}
    THEN CHOOSE f \in {"idA", "idB"} :
            \E k \in DOMAIN scripts :
                scripts[k] = f /\ \A m \in (k + 1)..Len(scripts) : scripts[m] \notin {"idA", "idB"}
    ELSE DEFAULT_CLIENT_ID

(* _update_client_id, the loop over reversed(re.findall(...)): a script is
   "fail" (download returned False), "noid" (no client_id pattern in it) or
   the 32-character id it embeds; the result is the id found, or None. *)
ScriptKinds == {"fail", "noid"} \cup FreshIds
RECURSIVE ScanScripts(_)
ScanScripts(scripts) ==
    IF scripts = <<>> THEN None
    ELSE LET src == scripts[Len(scripts)] IN
         IF src \in FreshIds THEN src
         ELSE ScanScripts(SubSeq(scripts, 1, Len(scripts) - 1))

\* the page as served: does any of its scripts embed an id
EmbedsId(scripts) == \E k \in DOMAIN scripts : scripts[k] \in FreshIds

ScriptLists == UNION {[1..n -> ScriptKinds] : n \in 0..MaxScripts}

\* mutant: a client_id the caller put in the query is kept (query.setdefault)
SendClientIdKeepsQuery(i) == IF dj[i].req.qcid # None THEN dj[i].req.qcid ELSE CLIENT_ID[i]

\* query = kwargs.get('query', {}).copy(); query['client_id'] = self._CLIENT_ID
SendClientId(i) == CLIENT_ID[i]

\* the payloads the platform may answer a request with
PayloadsFor(req) ==
    IF req.kind = "info" THEN InfoPayloads \cup ErrorPayloads
    ELSE IF req.kind = "resolve" THEN ResolvePayloads
    ELSE IF req.kind = "page" THEN PagePayloads(req.url)
    ELSE IF req.kind = "search" THEN SearchPayloads(req.url)
    ELSE {UrlPayload(u) : u \in PayloadUrls}

\* for _ in range(2): ... return super()._download_json(*args, **kwargs)
Send(i) ==
    /\ dj[i].pc = "send"
    /\ \E status \in {200, 0} \cup Statuses :
       \E v \in (IF status = 200 THEN PayloadsFor(dj[i].req) ELSE {NoPayload}) :
         /\ log' = [log EXCEPT ![i] = Append(@, Event("send", SendClientId(i), dj[i].req, status, v))]
         /\ IF status = 200
            THEN /\ dj' = [dj EXCEPT ![i].pc = "returned", ![i].res = Returned(v)]
                 /\ UNCHANGED warnings
            ELSE IF status \in AuthStatuses
            THEN /\ dj' = [dj EXCEPT ![i].pc = "invalidate"]
                 /\ UNCHANGED warnings
            ELSE IF dj[i].nonFatal
            THEN /\ dj' = [dj EXCEPT ![i].pc = "returned", ![i].res = ReturnedFalse]
                 /\ warnings' = warnings \cup {WError}
            ELSE /\ dj' = [dj EXCEPT ![i].pc = "raised",
                                     ![i].res = Raised(IF status = 0 THEN ENetwork ELSE EHttp, status)]
                 /\ UNCHANGED warnings
    /\ UNCHANGED <<cfg, cache, HEADERS, probes, phase, CLIENT_ID, ex, sel>>

\* self._store_client_id(None)
Invalidate(i) ==
    /\ dj[i].pc = "invalidate"
    /\ cache' = StoreClientId(None)
    /\ dj' = [dj EXCEPT ![i].pc = "scan"]
    /\ log' = [log EXCEPT ![i] = Append(@, Did("invalidate", None))]
    /\ UNCHANGED <<cfg, HEADERS, warnings, probes, phase, CLIENT_ID, ex, sel>>

\* _update_client_id: download the bootstrap page and its scripts
Scan(i) ==
    /\ dj[i].pc = "scan"
    /\ \/ \* self._download_webpage('https://soundcloud.com/', None) raises
          /\ dj' = [dj EXCEPT ![i].pc = "raised", ![i].page = "fail",
                                   ![i].res = Raised(EWebpage, 0)]
          /\ log' = [log EXCEPT ![i] = Append(@, Did("scanfail", None))]
       \/ \E scripts \in ScriptLists :
            LET client_id == ScanScripts(scripts) IN
            IF client_id # None
            THEN /\ dj' = [dj EXCEPT ![i].pc = "set", ![i].page = "ok",
                                     ![i].anyId = EmbedsId(scripts), ![i].found = client_id]
                 /\ log' = [log EXCEPT ![i] = Append(@, Did("scan", client_id))]
            ELSE /\ dj' = [dj EXCEPT ![i].pc = "raised", ![i].page = "ok",
                                     ![i].anyId = EmbedsId(scripts),
                                     ![i].res = Raised(EUnableClientId, 0)]
                 /\ log' = [log EXCEPT ![i] = Append(@, Did("scanfail", None))]
    /\ UNCHANGED <<cfg, cache, HEADERS, warnings, probes, phase, CLIENT_ID, ex, sel>>

\* self._CLIENT_ID = client_id
SetClientId(i) ==
    /\ dj[i].pc = "set"
    /\ CLIENT_ID' = [CLIENT_ID EXCEPT ![i] = dj[i].found]
    /\ dj' = [dj EXCEPT ![i].pc = "persist", ![i].page = None, ![i].anyId = FALSE]
    /\ log' = [log EXCEPT ![i] = Append(@, Did("set", dj[i].found))]
    /\ UNCHANGED <<cfg, cache, HEADERS, warnings, probes, phase, ex, sel>>

\* mutant: the loop makes a single pass (range(1))
AfterContinueNoRetry(frame) ==
    [frame EXCEPT !.pc = "returned", !.iter = @ + 1, !.found = None, !.res = ReturnedNone]

\* the loop of _download_json after `continue`: a second pass, or the end of range(2)
AfterContinue(frame) ==
    IF frame.iter + 1 < 2
    THEN [frame EXCEPT !.pc = "send", !.iter = @ + 1, !.found = None]
    ELSE [frame EXCEPT !.pc = "returned", !.iter = @ + 1, !.found = None, !.res = ReturnedNone]

\* self._store_client_id(client_id); return; continue
Persist(i) ==
    /\ dj[i].pc = "persist"
    /\ cache' = StoreClientId(dj[i].found)
    /\ dj' = [dj EXCEPT ![i] = AfterContinue(dj[i])]
    /\ log' = [log EXCEPT ![i] = Append(@, Did("persist", dj[i].found))]
    /\ UNCHANGED <<cfg, HEADERS, warnings, probes, phase, CLIENT_ID, ex, sel>>

\* the call has returned or raised
CallOver(i) == dj[i].pc \in {"returned", "raised"}

\* the steps of a call when extractions run one at a time
DjSend(i) == Turn(i) /\ Send(i)
DjInvalidate(i) == Turn(i) /\ Invalidate(i)
DjScan(i) == Turn(i) /\ Scan(i)
DjSet(i) == Turn(i) /\ SetClientId(i)
DjPersist(i) == Turn(i) /\ Persist(i)

DownloadJsonStep(i) ==
    DjSend(i) \/ DjInvalidate(i) \/ DjScan(i) \/ DjSet(i) \/ DjPersist(i)



-----------------------------------------------------------------------------
(* FormatClassifier: the identity of a raw transcoding (_extract_info_dict)  *)

IsPrefix(x, str) == Len(x) <= Len(str) /\ SubSeq(str, 1, Len(x)) = x

\* '/' + x in format_url, for x without '/': some part of the URL starts with x
UrlContains(url, x) == \E k \in DOMAIN url : IsPrefix(x, url[k])

\* '/preview/' in format_url
UrlHasPreviewPart(url) == \E k \in 1..(Len(url) - 1) : url[k] = S_preview

\* lambda _, v: url_or_none(v['url'])
HasUrl(t) == t.url # <<>>

\* mutant: the URL is not looked at
NormalizeProtocolDeclaredOnly(t) ==
    IF t.protocol = S_progressive THEN S_http
    ELSE IF t.protocol = S_encrypted_hls THEN S_hls_aes
    ELSE t.protocol

\* protocol = traverse_obj(t, ('format', 'protocol', {str})) and the three rewrites
NormalizeProtocol(t) ==
    LET p0 == t.protocol
        p1 == IF p0 = S_progressive THEN S_http ELSE p0
        p2 == IF p1 # S_hls /\ UrlContains(t.url, S_hls) THEN S_hls ELSE p1
    IN IF p2 = S_encrypted_hls \/ UrlContains(t.url, S_encrypted_hls) THEN S_hls_aes ELSE p2

\* utils.KNOWN_EXTENSIONS, the audio extensions the payloads use
S_m4a == <<"m","4","a">>
S_ogg == <<"o","g","g">>
KnownExtensions == {S_mp3, S_aac, S_opus, S_m4a, S_ogg}

\* utils.mimetype2ext
MimeTypeToExt(mime) ==
    IF mime = "audio/mpeg" THEN S_mp3
    ELSE IF mime = "audio/ogg" THEN S_ogg
    ELSE IF mime = "audio/mp4" THEN S_m4a
    ELSE <<>>

\* ext = preset.split('_')[0]; if ext not in KNOWN_EXTENSIONS: ext = mimetype2ext(...)
TranscodingExt(t) ==
    LET ext == IF t.preset # <<>> THEN t.preset[1] ELSE <<>>
    IN IF ext \notin KnownExtensions THEN MimeTypeToExt(t.mime) ELSE ext

\* join_nonempty(..., delim='_') / '_'.join(...)
RECURSIVE JoinNonempty(_)
JoinNonempty(parts) ==
    IF parts = <<>> THEN <<>>
    ELSE IF Head(parts) = <<>> THEN JoinNonempty(Tail(parts))
    ELSE LET rest == JoinNonempty(Tail(parts))
         IN IF rest = <<>> THEN Head(parts) ELSE Head(parts) \o US \o rest

\* identifier = join_nonempty(protocol, ext, delim='_')
Identifier(t) == JoinNonempty(<<NormalizeProtocol(t), TranscodingExt(t)>>)

-----------------------------------------------------------------------------
(* MetadataExtractor: the formats of _extract_info_dict                      *)

\* extractor_retries (the retries of self.RetryManager)
ExtractorRetries == 1

\* a collected format
Format(format_id, url, quality, preview) ==
    [format_id |-> format_id, url |-> url, quality |-> quality, preview |-> preview]

\* formats.append({'format_id': 'download', ..., 'quality': 10, ...})
DownloadFormat(format_url) ==
    Format(<<"d","o","w","n","l","o","a","d">>, format_url, 10, FALSE)

\* add_format(f, protocol, is_preview) for a stream URL without '.<abr>.<ext>' part
AddFormat(stream_url, ext, protocol, is_preview) ==
    LET abr == IF ext = S_aac THEN <<"2","5","6">> ELSE <<>>
        quality == IF ext = S_aac THEN 5 ELSE 0
    IN Format(JoinNonempty(<<protocol, ext, abr, IF is_preview THEN S_preview ELSE <<>>>>),
              stream_url, quality, is_preview)

\* utils.url_or_none of a payload member
UrlOrNone(u) == IF u \in {"", None} THEN None ELSE u

\* mutant: only empty URLs are refused
InvalidUrlEmptyOnly(url, format_urls) == url = None

\* def invalid_url(url): return not url or url in format_urls
InvalidUrl(url, format_urls) == url = None \/ url \in format_urls

IdleEx == [pc |-> "idle", token |-> None, info |-> NoPayload, qcid |-> None, k |-> 0,
           attempt |-> 0, formats |-> <<>>, format_urls |-> {}, resolved |-> <<>>,
           err |-> None, calls |-> 0, ie |-> None, msg |-> <<>>,
           href |-> NoHref, offset |-> FALSE, yielded |-> <<>>, served |-> <<>>, reqs |-> <<>>,
           status |-> 0, want |-> [inf |-> FALSE, n |-> 0], j |-> 0]

\* the extractions one instance is asked for
MaxExtractions == 1

-----------------------------------------------------------------------------
(* Session: initialize() runs _initialize_pre_login, then _perform_login
   when login info is given, then _real_initialize                          *)

\* _initialize_pre_login
InitializePreLogin(i) ==
    /\ Turn(i)
    /\ phase[i] = "new"
    /\ CLIENT_ID' = [CLIENT_ID EXCEPT ![i] = InitializePreLoginValue(cache)]
    /\ phase' = [phase EXCEPT ![i] = "login"]
    /\ UNCHANGED <<cfg, cache, HEADERS, warnings, probes, dj, log, ex, sel>>

\* mutant: the guard is missing
HeadersNeverSet == FALSE

\* if self._HEADERS: return   (in _real_initialize and in _perform_login)
HeadersSet == HEADERS # None

\* mutant: the token is trusted whatever the probe answers
VerifyOauthTokenTrusting(i, token) ==
    \E ok \in BOOLEAN :
        /\ probes' = Append(probes, [token |-> token, ok |-> ok])
        /\ HEADERS' = token
        /\ UNCHANGED warnings

\* _verify_oauth_token(token): one probe, then the header or the warning
VerifyOauthToken(i, token) ==
    \E ok \in BOOLEAN :
        /\ probes' = Append(probes, [token |-> token, ok |-> ok])
        /\ IF ok
           THEN /\ HEADERS' = token
                /\ UNCHANGED warnings
           ELSE /\ warnings' = warnings \cup {WInvalidToken}
                /\ UNCHANGED HEADERS

\* _perform_login(username, password)
PerformLogin(i) ==
    /\ Turn(i)
    /\ phase[i] = "login"
    /\ IF cfg.username = None
       THEN /\ phase' = [phase EXCEPT ![i] = "realinit"]
            /\ UNCHANGED <<HEADERS, warnings, probes>>
       ELSE IF cfg.username # "oauth"
       THEN /\ phase' = [phase EXCEPT ![i] = "failed"]
            /\ UNCHANGED <<HEADERS, warnings, probes>>
       ELSE IF HeadersSet
       THEN /\ phase' = [phase EXCEPT ![i] = "realinit"]
            /\ UNCHANGED <<HEADERS, warnings, probes>>
       ELSE /\ VerifyOauthToken(i, cfg.password)
            /\ phase' = [phase EXCEPT ![i] = "realinit"]
    /\ UNCHANGED <<cfg, cache, CLIENT_ID, dj, log, ex, sel>>

\* _real_initialize
RealInitialize(i) ==
    /\ Turn(i)
    /\ phase[i] = "realinit"
    /\ phase' = [phase EXCEPT ![i] = "ready"]
    /\ IF HeadersSet
       THEN UNCHANGED <<HEADERS, warnings, probes>>
       ELSE IF cfg.cookie # None
       THEN VerifyOauthToken(i, cfg.cookie)
       ELSE UNCHANGED <<HEADERS, warnings, probes>>
    /\ UNCHANGED <<cfg, cache, CLIENT_ID, dj, log, ex, sel>>

\* a caller invokes self._download_json(url, ..., query=query, headers=self._HEADERS)
Invoke(i) ==
    /\ phase[i] = "ready"
    /\ \E secret \in {None, "s1"}, qcid \in {None, CLIENT_ID[i]}, nonFatal \in BOOLEAN :
         dj' = [dj EXCEPT ![i] = [IdleDj EXCEPT !.pc = "send", !.nonFatal = nonFatal,
                                    !.req = Request("api", "r1", secret, qcid, HEADERS)]]
    /\ phase' = [phase EXCEPT ![i] = "call"]
    /\ log' = [log EXCEPT ![i] = <<>>]
    /\ UNCHANGED <<cfg, cache, HEADERS, warnings, probes, CLIENT_ID, ex, sel>>

Call(i) == Turn(i) /\ Invoke(i)

\* the caller takes the result (or the exception) of its call
CallReturn(i) ==
    /\ Turn(i)
    /\ phase[i] = "call"
    /\ dj[i].pc \in {"returned", "raised"}
    /\ phase' = [phase EXCEPT ![i] = "ready"]
    /\ dj' = [dj EXCEPT ![i] = IdleDj]
    /\ log' = [log EXCEPT ![i] = <<>>]
    /\ UNCHANGED <<cfg, cache, HEADERS, warnings, probes, CLIENT_ID, ex, sel>>

-----------------------------------------------------------------------------
(* Frames that are idle in a specification                                  *)

IdleSel == [done |-> FALSE, key |-> <<>>, res |-> FALSE]
NoFormats == [given |-> FALSE, pats |-> <<>>]

-----------------------------------------------------------------------------
(* Spec: the client id over NInst instances of a session without login
   info; SpecSession: the same program in a session with any login info    *)

LoginInfos == [username : {None, "oauth", "user"}, password : {"tokP"},
               cookie : {None, "tokC"}, formats : {NoFormats}]
NoLogin == [username |-> None, password |-> "tokP", cookie |-> None, formats |-> NoFormats]

Init ==
    /\ cfg = NoLogin
    /\ cache \in {None} \cup FreshIds
    /\ HEADERS = None
    /\ warnings = {}
    /\ probes = <<>>
    /\ phase = [i \in Inst |-> "new"]
    /\ CLIENT_ID = [i \in Inst |-> Unset]
    /\ dj = [i \in Inst |-> IdleDj]
    /\ log = [i \in Inst |-> <<>>]
    /\ ex = [i \in Inst |-> IdleEx]
    /\ sel = IdleSel

Next ==
    \E i \in Inst :
        \/ InitializePreLogin(i)
        \/ PerformLogin(i)
        \/ RealInitialize(i)
        \/ Call(i)
        \/ DownloadJsonStep(i)
        \/ CallReturn(i)

Spec == Init /\ [][Next]_vars

InitSession ==
    /\ cfg \in LoginInfos
    /\ cache \in {None} \cup FreshIds
    /\ HEADERS = None
    /\ warnings = {}
    /\ probes = <<>>
    /\ phase = [i \in Inst |-> "new"]
    /\ CLIENT_ID = [i \in Inst |-> Unset]
    /\ dj = [i \in Inst |-> IdleDj]
    /\ log = [i \in Inst |-> <<>>]
    /\ ex = [i \in Inst |-> IdleEx]
    /\ sel = IdleSel

SpecSession == InitSession /\ [][Next]_vars



-----------------------------------------------------------------------------
(* SoundcloudIE._real_extract and _extract_info_dict, step by step           *)

StartCall(i, req, nonFatal) ==
    /\ dj' = [dj EXCEPT ![i] = [IdleDj EXCEPT !.pc = "send", !.nonFatal = nonFatal, !.req = req]]
    /\ log' = [log EXCEPT ![i] = <<>>]

EndCall(i) ==
    /\ dj' = [dj EXCEPT ![i] = IdleDj]
    /\ log' = [log EXCEPT ![i] = <<>>]

\* _real_extract: the locator is api.soundcloud.com/tracks/<id>[?secret_token=<token>]
\* (token in the query) or soundcloud.com/<uploader>/<title>[/<token>] (token in the
\* resolved URL); info = self._download_json(info_json_url, ..., query=query, headers=self._HEADERS)
RealExtract(i) ==
    /\ Turn(i)
    /\ phase[i] = "ready"
    /\ ex[i].calls < MaxExtractions
    /\ \E token \in {None, "s1"}, form \in {"tracks", "resolve"} :
         /\ StartCall(i, Request("info", form, token, None, HEADERS), FALSE)
         /\ ex' = [ex EXCEPT ![i] = [IdleEx EXCEPT !.pc = "info", !.token = token,
                                                   !.calls = ex[i].calls + 1,
                                                   !.ie = "Soundcloud"]]
    /\ phase' = [phase EXCEPT ![i] = "extract"]
    /\ UNCHANGED <<cfg, cache, HEADERS, warnings, probes, CLIENT_ID, sel>>

\* the transcodings the loop visits
RECURSIVE WithUrl(_)
WithUrl(ts) ==
    IF ts = <<>> THEN <<>>
    ELSE (IF HasUrl(Head(ts)) THEN <<Head(ts)>> ELSE <<>>) \o WithUrl(Tail(ts))
VisitedTranscodings(info) == WithUrl(info.transcodings)

(* _extract_info_dict begins with the payload of the info request:
   query = {'client_id': self._CLIENT_ID} (+ secret_token), then the download
   request when the track is downloadable *)
ExInfo(i) ==
    /\ Turn(i)
    /\ ex[i].pc = "info"
    /\ CallOver(i)
    /\ IF dj[i].res.t = "raise"
       THEN /\ ex' = [ex EXCEPT ![i].pc = "failed", ![i].err = dj[i].res.err]
            /\ EndCall(i)
       ELSE IF dj[i].res.t # "value"
       THEN \* info['id'] on None
            /\ ex' = [ex EXCEPT ![i].pc = "failed", ![i].err = "TypeError"]
            /\ EndCall(i)
       ELSE LET info == dj[i].res.v IN
            IF ~info.id
            THEN \* track_id = compat_str(info['id'])
                 /\ ex' = [ex EXCEPT ![i].pc = "failed", ![i].err = "KeyError", ![i].info = info]
                 /\ EndCall(i)
            ELSE IF info.downloadable
            THEN /\ ex' = [ex EXCEPT ![i].pc = "download", ![i].info = info,
                                     ![i].qcid = CLIENT_ID[i]]
                 /\ StartCall(i, Request("download", "download", ex[i].token, CLIENT_ID[i], None), TRUE)
            ELSE /\ ex' = [ex EXCEPT ![i].pc = "loop", ![i].info = info,
                                     ![i].qcid = CLIENT_ID[i], ![i].k = 1]
                 /\ EndCall(i)
    /\ UNCHANGED <<cfg, cache, HEADERS, warnings, probes, phase, CLIENT_ID, sel>>

(* redirect_url = (self._download_json(download_url, track_id, fatal=False) or {}).get('redirectUri');
   then the HEAD request and the 'download' format *)
ExDownload(i) ==
    /\ Turn(i)
    /\ ex[i].pc = "download"
    /\ CallOver(i)
    /\ EndCall(i)
    /\ IF dj[i].res.t = "raise"
       THEN ex' = [ex EXCEPT ![i].pc = "failed", ![i].err = dj[i].res.err]
       ELSE LET redirect_url == IF dj[i].res.t = "value" THEN dj[i].res.v.url ELSE None IN
            IF redirect_url \in {"", None}
            THEN ex' = [ex EXCEPT ![i].pc = "loop", ![i].k = 1]
            ELSE \/ \* urlh is falsy
                    ex' = [ex EXCEPT ![i].pc = "loop", ![i].k = 1]
                 \/ \E format_url \in {"u1"} :
                      ex' = [ex EXCEPT ![i].pc = "loop", ![i].k = 1,
                                       ![i].format_urls = @ \cup {format_url},
                                       ![i].resolved = Append(@, format_url),
                                       ![i].formats = Append(@, DownloadFormat(format_url))]
    /\ UNCHANGED <<cfg, cache, HEADERS, warnings, probes, phase, CLIENT_ID, sel>>

\* mutant: a blocked track is refused whatever was collected
FinishedBlockedAlways(frame) ==
    IF frame.info.policy = "BLOCK"
    THEN [frame EXCEPT !.pc = "failed", !.err = EGeo]
    ELSE [frame EXCEPT !.pc = "done"]

\* if not formats and info.get('policy') == 'BLOCK': self.raise_geo_restricted(...)
Finished(frame) ==
    IF frame.formats = <<>> /\ frame.info.policy = "BLOCK"
    THEN [frame EXCEPT !.pc = "failed", !.err = EGeo]
    ELSE [frame EXCEPT !.pc = "done"]

\* mutant: the transcoding request is sent without the secret token
StreamRequestNoToken(frame) == Request("stream", frame.k, None, frame.qcid, HEADERS)

\* self._download_json(format_url, track_id, ..., query=query, headers=self._HEADERS)
StreamRequest(frame) == Request("stream", frame.k, frame.token, frame.qcid, HEADERS)

\* the head of the loop over the transcodings: classify, then the selector gate
ExLoop(i) ==
    /\ Turn(i)
    /\ ex[i].pc = "loop"
    /\ LET visited == VisitedTranscodings(ex[i].info) IN
       IF ex[i].k > Len(visited)
       THEN /\ ex' = [ex EXCEPT ![i] = Finished(ex[i])]
            /\ UNCHANGED <<dj, log>>
       ELSE IF ~IsRequested(cfg.formats, Identifier(visited[ex[i].k]))
       THEN /\ ex' = [ex EXCEPT ![i].k = @ + 1]
            /\ UNCHANGED <<dj, log>>
       ELSE /\ ex' = [ex EXCEPT ![i].pc = "stream", ![i].attempt = 1]
            /\ StartCall(i, StreamRequest(ex[i]), FALSE)
    /\ UNCHANGED <<cfg, cache, HEADERS, warnings, probes, phase, CLIENT_ID, sel>>

\* stream_url = traverse_obj(stream, ('url', {url_or_none})); invalid_url; add_format
Collected(frame, raw_url) ==
    LET t == VisitedTranscodings(frame.info)[frame.k]
        stream_url == UrlOrNone(raw_url)
        seen == [frame EXCEPT !.k = @ + 1, !.pc = "loop", !.attempt = 0,
                              !.resolved = Append(@, stream_url)]
    IN IF InvalidUrl(stream_url, frame.format_urls)
       THEN seen
       ELSE [seen EXCEPT !.format_urls = @ \cup {stream_url},
                         !.formats = Append(@, AddFormat(stream_url, TranscodingExt(t),
                                                         NormalizeProtocol(t),
                                                         t.snipped \/ UrlHasPreviewPart(t.url)))]

(* for retry in self.RetryManager(fatal=False): try: stream = self._download_json(...)
   except ExtractorError as e: 429 -> warning once, retry.error = e.cause;
   otherwise self.report_warning(e.msg) *)
ExStream(i) ==
    /\ Turn(i)
    /\ ex[i].pc = "stream"
    /\ CallOver(i)
    /\ IF dj[i].res.t = "raise"
       THEN IF dj[i].res.err = EHttp /\ dj[i].res.status = 429
            THEN /\ warnings' = warnings \cup {WRateLimit}
                 /\ IF ex[i].attempt <= ExtractorRetries
                    THEN /\ ex' = [ex EXCEPT ![i].attempt = @ + 1]
                         /\ StartCall(i, dj[i].req, FALSE)
                    ELSE /\ ex' = [ex EXCEPT ![i] = Collected(ex[i], None)]
                         /\ EndCall(i)
            ELSE /\ warnings' = warnings \cup {WError}
                 /\ ex' = [ex EXCEPT ![i] = Collected(ex[i], None)]
                 /\ EndCall(i)
       ELSE /\ UNCHANGED warnings
            /\ ex' = [ex EXCEPT ![i] =
                        Collected(ex[i], IF dj[i].res.t = "value" THEN dj[i].res.v.url ELSE None)]
            /\ EndCall(i)
    /\ UNCHANGED <<cfg, cache, HEADERS, probes, phase, CLIENT_ID, sel>>

\* _real_extract returns the record, or the error propagates
ExReturn(i) ==
    /\ Turn(i)
    /\ phase[i] = "extract"
    /\ ex[i].pc \in {"done", "failed"}
    /\ phase' = [phase EXCEPT ![i] = "ready"]
    /\ ex' = [ex EXCEPT ![i] = [IdleEx EXCEPT !.calls = ex[i].calls]]
    /\ UNCHANGED <<cfg, cache, HEADERS, warnings, probes, CLIENT_ID, dj, log, sel>>

(* SpecExtract: one initialised instance extracts tracks *)
InitExtract ==
    /\ cfg = NoLogin
    /\ cache = None
    /\ HEADERS = None
    /\ warnings = {}
    /\ probes = <<>>
    /\ phase = [i \in Inst |-> IF i = 1 THEN "ready" ELSE "new"]
    /\ CLIENT_ID = [i \in Inst |-> IF i = 1 THEN InitializePreLoginValue(cache) ELSE Unset]
    /\ dj = [i \in Inst |-> IdleDj]
    /\ log = [i \in Inst |-> <<>>]
    /\ ex = [i \in Inst |-> IdleEx]
    /\ sel = IdleSel

NextExtract ==
    \E i \in Inst :
        \/ RealExtract(i)
        \/ ExInfo(i)
        \/ ExDownload(i)
        \/ ExLoop(i)
        \/ ExStream(i)
        \/ ExReturn(i)
        \/ DownloadJsonStep(i)

SpecExtract == InitExtract /\ [][NextExtract]_vars

-----------------------------------------------------------------------------
(* The playlist entry points: SoundcloudSetIE, SoundcloudUserIE,
   SoundcloudTrackStationIE and SoundcloudRelatedIE._real_extract            *)

ESetErrors == "unable to download video webpage: %s"
ERelatedErrors == "soundcloud:related said: %s"

PlaylistIEs == {"SoundcloudSet", "SoundcloudUser", "SoundcloudTrackStation", "SoundcloudRelated"}

\* ','.join(msgs)
RECURSIVE JoinComma(_)
JoinComma(msgs) ==
    IF msgs = <<>> THEN <<>>
    ELSE IF Len(msgs) = 1 THEN msgs[1]
    ELSE msgs[1] \o <<",">> \o JoinComma(Tail(msgs))

\* the playlist is built from info['id'] / user['id'] / track['id']
PlaylistOf(frame, info) ==
    IF info.id
    THEN [frame EXCEPT !.pc = "done", !.info = info]
    ELSE [frame EXCEPT !.pc = "failed", !.err = "KeyError", !.info = info]

\* SoundcloudSetIE: if 'errors' in info: raise ExtractorError(...); return self._extract_set(info, token)
SetResult(frame, info) ==
    IF info.errors.given
    THEN [frame EXCEPT !.pc = "failed", !.err = ESetErrors, !.msg = JoinComma(info.errors.list),
                       !.info = info]
    ELSE PlaylistOf(frame, info)

\* SoundcloudRelatedIE: if track.get('errors'): raise ExtractorError(...)
RelatedResult(frame, info) ==
    IF info.errors.given /\ info.errors.list # <<>>
    THEN [frame EXCEPT !.pc = "failed", !.err = ERelatedErrors, !.msg = JoinComma(info.errors.list),
                       !.info = info]
    ELSE PlaylistOf(frame, info)

\* SoundcloudUserIE, SoundcloudTrackStationIE: the payload is used as it comes
UserResult(frame, info) == PlaylistOf(frame, info)
TrackStationResult(frame, info) == PlaylistOf(frame, info)

\* info = self._download_json(self._resolv_url(...), ..., headers=self._HEADERS)
ResolveStart(i) ==
    /\ Turn(i)
    /\ phase[i] = "ready"
    /\ ex[i].calls < MaxExtractions
    /\ \E ie \in PlaylistIEs, token \in {None, "s1"} :
         /\ token # None => ie = "SoundcloudSet"
         /\ StartCall(i, Request("resolve", ie, token, None, HEADERS), FALSE)
         /\ ex' = [ex EXCEPT ![i] = [IdleEx EXCEPT !.pc = "resolve", !.token = token,
                                                   !.calls = ex[i].calls + 1, !.ie = ie]]
    /\ phase' = [phase EXCEPT ![i] = "extract"]
    /\ UNCHANGED <<cfg, cache, HEADERS, warnings, probes, CLIENT_ID, sel>>

\* the rest of _real_extract, once _download_json is over
ResolveFinish(i) ==
    /\ Turn(i)
    /\ ex[i].pc = "resolve"
    /\ CallOver(i)
    /\ EndCall(i)
    /\ IF dj[i].res.t = "raise"
       THEN ex' = [ex EXCEPT ![i].pc = "failed", ![i].err = dj[i].res.err]
       ELSE IF dj[i].res.t # "value"
       THEN \* 'errors' in None, None['id'], None.get
            ex' = [ex EXCEPT ![i].pc = "failed", ![i].err = "TypeError"]
       ELSE LET info == dj[i].res.v
                ie == ex[i].ie
            IN ex' = [ex EXCEPT ![i] =
                        IF ie = "SoundcloudSet" THEN SetResult(@, info)
                        ELSE IF ie = "SoundcloudRelated" THEN RelatedResult(@, info)
                        ELSE IF ie = "SoundcloudUser" THEN UserResult(@, info)
                        ELSE TrackStationResult(@, info)]
    /\ UNCHANGED <<cfg, cache, HEADERS, warnings, probes, phase, CLIENT_ID, sel>>

(* SpecResolve: one initialised instance is given a track, set, user, track
   station or related locator *)
NextResolve ==
    \/ NextExtract
    \/ \E i \in Inst : ResolveStart(i) \/ ResolveFinish(i)

SpecResolve == InitExtract /\ [][NextResolve]_vars

-----------------------------------------------------------------------------
(* PaginatedCollector: SoundcloudPagedPlaylistBaseIE._entries                *)

\* an entry of the playlist: the url_result of an item, or None
NoEntry == [id |-> <<0, 0>>, none |-> TRUE]
UrlResult(item) == [id |-> item.id, none |-> FALSE]

\* resolve_entry(e, e.get('track'), e.get('playlist'))
ResolveEntry(item) == IF item.permalink THEN UrlResult(item) ELSE NoEntry

\* mutant: items without a permalink_url yield nothing
ResolveEntriesSkippingNone(collection) ==
    LET kept == SelectSeq(collection, LAMBDA item : item.permalink)
    IN [j \in 1..Len(kept) |-> ResolveEntry(kept[j])]

\* for e in response['collection'] or []: yield resolve_entry(...)
ResolveEntries(collection) == [j \in 1..Len(collection) |-> ResolveEntry(collection[j])]

\* mutant: no failure is retried
RetryableNever(res) == FALSE

\* mutant: every HTTP failure is retried
RetryableAnyHttp(res) == res.err = EHttp

\* not (not isinstance(e.cause, HTTPError) or e.cause.status != 502)
Retryable(res) == res.err = EHttp /\ res.status = 502

\* RetryManager: another attempt is made while attempt <= retries
RetryAllowed(attempt) == attempt <= ExtractorRetries

\* mutant: every request is for the URL the collector was given
PageRequestFirst(href) == Request("page", FirstHref, None, None, HEADERS)

\* self._download_json(url, playlist_id, query=query, headers=self._HEADERS, ...)
PageRequest(href) == Request("page", href, None, None, HEADERS)

\* the consumer starts to iterate over self._entries(base_url, playlist_id)
EntriesStart(i) ==
    /\ Turn(i)
    /\ phase[i] = "ready"
    /\ ex[i].calls < MaxExtractions
    /\ StartCall(i, PageRequest(FirstHref), FALSE)
    /\ ex' = [ex EXCEPT ![i] = [IdleEx EXCEPT !.pc = "page", !.calls = ex[i].calls + 1,
                                              !.ie = "entries", !.href = FirstHref,
                                              !.offset = TRUE, !.attempt = 1,
                                              !.reqs = <<[href |-> FirstHref, offset |-> TRUE]>>]]
    /\ phase' = [phase EXCEPT ![i] = "extract"]
    /\ UNCHANGED <<cfg, cache, HEADERS, warnings, probes, CLIENT_ID, sel>>

(* one pass of the body of `for i in itertools.count()` from the end of
   _download_json on: the except clause and the RetryManager, the yields of the
   page, next_href, query.pop('offset') and the request of the next page *)
EntriesPage(i) ==
    /\ Turn(i)
    /\ ex[i].pc = "page"
    /\ CallOver(i)
    /\ LET res == dj[i].res IN
       IF res.t = "raise"
       THEN IF Retryable(res) /\ RetryAllowed(ex[i].attempt)
            THEN /\ ex' = [ex EXCEPT ![i].attempt = @ + 1,
                                     ![i].reqs = Append(@, [href |-> ex[i].href,
                                                            offset |-> ex[i].offset])]
                 /\ StartCall(i, dj[i].req, FALSE)
            ELSE /\ ex' = [ex EXCEPT ![i].pc = "failed", ![i].err = res.err,
                                     ![i].status = res.status]
                 /\ EndCall(i)
       ELSE IF res.t # "value"
       THEN \* response['collection'] on None
            /\ ex' = [ex EXCEPT ![i].pc = "failed", ![i].err = "TypeError"]
            /\ EndCall(i)
       ELSE LET response == res.v
                seen == [ex[i] EXCEPT !.yielded = @ \o ResolveEntries(response.collection),
                                      !.served = Append(@, [collection |-> response.collection,
                                                            next_href |-> response.next_href])]
            IN IF response.next_href = NoHref
               THEN /\ ex' = [ex EXCEPT ![i] = [seen EXCEPT !.pc = "done"]]
                    /\ EndCall(i)
               ELSE /\ ex' = [ex EXCEPT ![i] =
                                [seen EXCEPT !.href = response.next_href, !.offset = FALSE,
                                             !.attempt = 1,
                                             !.reqs = Append(@, [href |-> response.next_href,
                                                                 offset |-> FALSE])]]
                    /\ StartCall(i, PageRequest(response.next_href), FALSE)
    /\ UNCHANGED <<cfg, cache, HEADERS, warnings, probes, phase, CLIENT_ID, sel>>

(* SpecPages: the entries of one playlist are collected on an initialised
   instance; SpecPagesFair: the collector is not suspended for ever *)
NextPages ==
    \E i \in Inst :
        \/ EntriesStart(i)
        \/ EntriesPage(i)
        \/ ExReturn(i)
        \/ DownloadJsonStep(i)

SpecPages == InitExtract /\ [][NextPages]_vars

SpecPagesFair == SpecPages /\ WF_vars(NextPages)

-----------------------------------------------------------------------------
(* SpecSel: _is_requested applied to identity keys under every configuration
   of at most MaxPatterns patterns                                          *)

S_hls_star == S_hls \o US \o <<"*">>
S_star_mp3 == <<"*">> \o US \o S_mp3
S_star == <<"*">>
S_h_dot_s_aac == <<"h", ".", "s">> \o US \o S_aac

\* the patterns a user configures
Patterns == {hls_aac, http_mp3, S_default, S_hls_star, S_star_mp3, S_star, S_h_dot_s_aac, <<>>}

\* extractor_args soundcloud:formats: absent, or a list of patterns
FormatConfigs ==
    {NoFormats} \cup
    {[given |-> TRUE, pats |-> ps] : ps \in UNION {[1..n -> Patterns] : n \in 0..MaxPatterns}}

\* the identifiers _is_requested is asked about
Keys ==
    Range(DEFAULT_FORMATS) \cup
    {S_hls_aes \o US \o S_aac, hls_aac \o <<"x">>, <<"x">> \o hls_aac, S_hls \o US,
     S_hls \o US \o <<NL>>, S_default, S_h_dot_s_aac, <<>>}

\* if not self._is_requested(identifier)
CallIsRequested ==
    /\ \E key \in Keys :
         sel' = [done |-> TRUE, key |-> key, res |-> IsRequested(cfg.formats, key)]
    /\ UNCHANGED <<cfg, cache, HEADERS, warnings, probes, phase, CLIENT_ID, dj, log, ex>>

InitSel ==
    /\ cfg \in {[NoLogin EXCEPT !.formats = f] : f \in FormatConfigs}
    /\ cache = None
    /\ HEADERS = None
    /\ warnings = {}
    /\ probes = <<>>
    /\ phase = [i \in Inst |-> "new"]
    /\ CLIENT_ID = [i \in Inst |-> Unset]
    /\ dj = [i \in Inst |-> IdleDj]
    /\ log = [i \in Inst |-> <<>>]
    /\ ex = [i \in Inst |-> IdleEx]
    /\ sel = IdleSel

NextSel == CallIsRequested

SpecSel == InitSel /\ [][NextSel]_vars

-----------------------------------------------------------------------------
(* SearchCollector: SoundcloudSearchIE._get_n_results and _get_collection    *)

MAX_RESULTS_PER_PAGE == 200

\* the n of _get_n_results: a number, or float('inf')
Results(n) == [inf |-> FALSE, n |-> n]
AllResults == [inf |-> TRUE, n |-> 0]
Wanted == {Results(n) : n \in 1..MaxResults} \cup {Results(MAX_RESULTS_PER_PAGE + 1), AllResults}

\* mutant: the limit of the caller is passed on as it is
PageLimitUncapped(want) == IF want.inf THEN MAX_RESULTS_PER_PAGE ELSE want.n

\* limit = min(query.get('limit', self._DEFAULT_RESULTS_PER_PAGE), self._MAX_RESULTS_PER_PAGE)
PageLimit(want) ==
    IF want.inf \/ want.n > MAX_RESULTS_PER_PAGE THEN MAX_RESULTS_PER_PAGE ELSE want.n

\* itertools.islice(..., 0, None if n == float('inf') else n): no item is asked for after the n-th
SlicedOff(want, count) == ~want.inf /\ count >= want.n

\* self._download_json(next_url, collection_id, ..., headers=self._HEADERS)
SearchRequest(href) == Request("search", href, None, None, HEADERS)

\* self._extract_info_dict(item, extract_flat=True): no request, no format; the
\* geo restriction test is made all the same
FlatInfo(item) == Finished([IdleEx EXCEPT !.info = [NoPayload EXCEPT !.id = TRUE, !.policy = item.kind]])

\* self.url_result(item['uri'], SoundcloudIE.ie_key(), **info)
SearchEntry(item) == [id |-> item.id, none |-> FALSE]

\* _get_n_results(query, n): the consumer asks for the first entry
SearchStart(i) ==
    /\ Turn(i)
    /\ phase[i] = "ready"
    /\ ex[i].calls < MaxExtractions
    /\ \E want \in Wanted :
         ex' = [ex EXCEPT ![i] = [IdleEx EXCEPT !.pc = "page", !.calls = ex[i].calls + 1,
                                                !.ie = "search", !.want = want,
                                                !.href = FirstHref, !.offset = TRUE,
                                                !.reqs = <<[href |-> FirstHref, offset |-> TRUE,
                                                            limit |-> PageLimit(want)]>>]]
    /\ StartCall(i, SearchRequest(FirstHref), FALSE)
    /\ phase' = [phase EXCEPT ![i] = "extract"]
    /\ UNCHANGED <<cfg, cache, HEADERS, warnings, probes, CLIENT_ID, sel>>

\* the response of a page request reaches `for item in response.get('collection') or []`
SearchPage(i) ==
    /\ Turn(i)
    /\ ex[i].pc = "page"
    /\ ex[i].ie = "search"
    /\ CallOver(i)
    /\ EndCall(i)
    /\ LET res == dj[i].res IN
       IF res.t = "raise"
       THEN ex' = [ex EXCEPT ![i].pc = "failed", ![i].err = res.err, ![i].status = res.status]
       ELSE IF res.t # "value"
       THEN \* response.get on None
            ex' = [ex EXCEPT ![i].pc = "failed", ![i].err = "AttributeError"]
       ELSE ex' = [ex EXCEPT ![i].pc = "items", ![i].j = 1,
                             ![i].served = Append(@, [collection |-> res.v.collection,
                                                      next_href |-> res.v.next_href])]
    /\ UNCHANGED <<cfg, cache, HEADERS, warnings, probes, phase, CLIENT_ID, sel>>

(* the consumer asks for the next entry: the loop over the items of the page
   goes on by one item, or, at the end of the page, to next_href and the
   request of the next page *)
SearchItem(i) ==
    /\ Turn(i)
    /\ ex[i].pc = "items"
    /\ LET page == ex[i].served[Len(ex[i].served)]
           item == page.collection[ex[i].j]
       IN IF SlicedOff(ex[i].want, Len(ex[i].yielded))
          THEN /\ ex' = [ex EXCEPT ![i].pc = "done"]
               /\ UNCHANGED <<dj, log>>
          ELSE IF ex[i].j <= Len(page.collection)
          THEN /\ UNCHANGED <<dj, log>>
               /\ IF item.kind = "empty"
                  THEN ex' = [ex EXCEPT ![i].j = @ + 1]
                  ELSE IF FlatInfo(item).pc = "failed"
                  THEN ex' = [ex EXCEPT ![i].pc = "failed", ![i].err = FlatInfo(item).err]
                  ELSE ex' = [ex EXCEPT ![i].j = @ + 1,
                                        ![i].yielded = Append(@, SearchEntry(item))]
          ELSE IF page.next_href = NoHref
          THEN /\ ex' = [ex EXCEPT ![i].pc = "done"]
               /\ UNCHANGED <<dj, log>>
          ELSE /\ ex' = [ex EXCEPT ![i].pc = "page", ![i].href = page.next_href,
                                   ![i].offset = FALSE,
                                   ![i].reqs = Append(@, [href |-> page.next_href, offset |-> FALSE,
                                                          limit |-> 0])]
               /\ StartCall(i, SearchRequest(page.next_href), FALSE)
    /\ UNCHANGED <<cfg, cache, HEADERS, warnings, probes, phase, CLIENT_ID, sel>>

NextSearch ==
    \E i \in Inst :
        \/ SearchStart(i)
        \/ SearchPage(i)
        \/ SearchItem(i)
        \/ ExReturn(i)
        \/ DownloadJsonStep(i)

SpecSearch == InitExtract /\ [][NextSearch]_vars

-----------------------------------------------------------------------------
(* SpecConcurrent: two extractions, each on an instance of its own, call
   _download_json at the same time; their steps interleave freely and the
   cache is the one thing they share                                        *)

\* one extraction's call: a fatal request without a secret token
InvokeConcurrently(i) ==
    /\ Invoke(i)
    /\ ~dj'[i].nonFatal
    /\ dj'[i].req.secret = None
    /\ dj'[i].req.qcid = None

InitConcurrent ==
    /\ cfg = NoLogin
    /\ cache \in {None} \cup FreshIds
    /\ HEADERS = None
    /\ warnings = {}
    /\ probes = <<>>
    /\ phase = [i \in Inst |-> "ready"]
    /\ CLIENT_ID = [i \in Inst |-> InitializePreLoginValue(cache)]
    /\ dj = [i \in Inst |-> IdleDj]
    /\ log = [i \in Inst |-> <<>>]
    /\ ex = [i \in Inst |-> IdleEx]
    /\ sel = IdleSel

NextConcurrent ==
    \E i \in Inst :
        \/ InvokeConcurrently(i)
        \/ Send(i)
        \/ Invalidate(i)
        \/ Scan(i)
        \/ SetClientId(i)
        \/ Persist(i)

SpecConcurrent == InitConcurrent /\ [][NextConcurrent]_vars

-----------------------------------------------------------------------------
(* SpecClassify: the identity of one raw transcoding, whatever the platform
   declares for it, as the loop of _extract_info_dict computes it           *)

S_ctr_encrypted_hls == <<"c","t","r">> \o <<"-">> \o S_encrypted_hls
S_abr == <<"a","b","r">>
S_media == <<"m","e","d","i","a">>

\* t['format']['protocol']: absent, the three known values, one the code does not know
RawProtocols == {<<>>, S_progressive, S_hls, S_encrypted_hls, S_ctr_encrypted_hls}

\* t['url']: without a telling part, with /hls, with /encrypted-hls
RawUrls == {<<S_host, S_media, S_stream>>, <<S_host, S_stream, S_hls>>,
            <<S_host, S_stream, S_encrypted_hls>>}

\* t['preset']: absent, led by a known extension, led by another token
RawPresets == {<<>>, <<S_mp3, <<"1">>>>, <<S_aac, <<"1">>>>, <<S_abr, <<"s","q">>>>}

\* t['format']['mime_type']: absent or one of the platform's
RawMimeTypes == {"", "audio/mpeg", "audio/mp4"}

RawTranscodings ==
    {Transcoding(u, p, ps, m, FALSE) :
        u \in RawUrls, p \in RawProtocols, ps \in RawPresets, m \in RawMimeTypes}

IdleClassify == [done |-> FALSE, key |-> <<>>, res |-> FALSE, protocol |-> <<>>, ext |-> <<>>]

\* the transcoding the loop is at
Raw == ex[1].info.transcodings[1]

\* one pass of the loop body up to self._is_requested(identifier)
Classify ==
    /\ ~sel.done
    /\ HasUrl(Raw)
    /\ sel' = [done |-> TRUE, key |-> Identifier(Raw),
               res |-> IsRequested(cfg.formats, Identifier(Raw)),
               protocol |-> NormalizeProtocol(Raw), ext |-> TranscodingExt(Raw)]
    /\ UNCHANGED <<cfg, cache, HEADERS, warnings, probes, phase, CLIENT_ID, dj, log, ex>>

InitClassify ==
    /\ cfg = NoLogin
    /\ cache = None
    /\ HEADERS = None
    /\ warnings = {}
    /\ probes = <<>>
    /\ phase = [i \in Inst |-> IF i = 1 THEN "extract" ELSE "new"]
    /\ CLIENT_ID = [i \in Inst |-> IF i = 1 THEN DEFAULT_CLIENT_ID ELSE Unset]
    /\ dj = [i \in Inst |-> IdleDj]
    /\ log = [i \in Inst |-> <<>>]
    /\ \E t \in RawTranscodings :
         ex = [i \in Inst |-> IF i = 1
                              THEN [IdleEx EXCEPT !.pc = "loop", !.ie = "Soundcloud", !.k = 1,
                                                  !.info = [NoPayload EXCEPT !.id = TRUE,
                                                                             !.transcodings = <<t>>]]
                              ELSE IdleEx]
    /\ sel = IdleClassify

NextClassify == Classify

SpecClassify == InitClassify /\ [][NextClassify]_vars

-----------------------------------------------------------------------------
(* SpecCounts: the counters of the record _extract_info_dict returns, for
   every choice of the counters of the payload                              *)

\* a counter of a payload: absent, an integer, or a string of digits;
\* a counter of the record: None or an integer
NoCount == [given |-> FALSE, n |-> 0, str |-> FALSE]
Count(n) == [given |-> TRUE, n |-> n, str |-> FALSE]
Counts == {NoCount} \cup {[given |-> TRUE, n |-> n, str |-> b] : n \in 0..MaxCount, b \in BOOLEAN}

\* utils.int_or_none(v): None for None, int(v) for an integer or a string of digits
IntOrNone(c) == IF c.given THEN Count(c.n) ELSE NoCount

\* def extract_count(key): return int_or_none(info.get('%s_count' % key))
ExtractCount(info, key) == IntOrNone(info[key])

\* Python's `a or b` on counters: a when it is truthy (given and not 0), else b
Or(a, b) == IF a.given /\ a.n # 0 THEN a ELSE b

\* 'like_count': extract_count('favoritings') or extract_count('likes')
LikeCount(info) == Or(ExtractCount(info, "favoritings"), ExtractCount(info, "likes"))

\* the counters of the returned record
CountsOf(info) ==
    [view_count |-> ExtractCount(info, "playback"),
     like_count |-> LikeCount(info),
     comment_count |-> ExtractCount(info, "comment"),
     repost_count |-> ExtractCount(info, "reposts")]

\* the <key>_count members of a payload
CountPayloads == [{"playback", "favoritings", "likes", "comment", "reposts"} -> Counts]

IdleCounts == [done |-> FALSE, info |-> [k \in {"playback", "favoritings", "likes", "comment", "reposts"} |-> NoCount],
               record |-> [view_count |-> NoCount, like_count |-> NoCount,
                           comment_count |-> NoCount, repost_count |-> NoCount]]

\* the return statement of _extract_info_dict
ReturnCounts ==
    /\ ~sel.done
    /\ sel' = [sel EXCEPT !.done = TRUE, !.record = CountsOf(sel.info)]
    /\ UNCHANGED <<cfg, cache, HEADERS, warnings, probes, phase, CLIENT_ID, dj, log, ex>>

InitCounts ==
    /\ cfg = NoLogin
    /\ cache = None
    /\ HEADERS = None
    /\ warnings = {}
    /\ probes = <<>>
    /\ phase = [i \in Inst |-> IF i = 1 THEN "extract" ELSE "new"]
    /\ CLIENT_ID = [i \in Inst |-> IF i = 1 THEN DEFAULT_CLIENT_ID ELSE Unset]
    /\ dj = [i \in Inst |-> IdleDj]
    /\ log = [i \in Inst |-> <<>>]
    /\ ex = [i \in Inst |-> IdleEx]
    /\ \E info \in CountPayloads : sel = [IdleCounts EXCEPT !.info = info]

NextCounts == ReturnCounts

SpecCounts == InitCounts /\ [][NextCounts]_vars

-----------------------------------------------------------------------------
(* Properties of the credential store                                       *)

SendsOf(L) == {k \in DOMAIN L : L[k].e = "send"}
SameRequest(a, b) == a.url = b.url /\ a.secret = b.secret /\ a.hdr = b.hdr

(* C1: when the first send of a _download_json call is rejected with 401 or
   403 the call goes on to refresh; when the bootstrap scripts hold an id f,
   the events of the call are, in this order: the rejected send, the cache
   invalidated (it holds None), the scan finding f, self._CLIENT_ID set to f,
   f persisted to the cache, and one more send of the same URL, secret_token
   and headers carrying client_id = f; there are never more than two sends;
   when that retry succeeds its payload is the result of the call and both
   the in-memory id and the cache equal f. *)
C1_RefreshThenRetryOnce ==
    \A i \in Inst :
        LET L == log[i] IN
        (Len(L) >= 1 /\ L[1].e = "send" /\ L[1].status \in {401, 403}) =>
            /\ Len(L) = 1 => dj[i].pc = "invalidate"
            /\ Len(L) >= 2 => L[2].e = "invalidate"
            /\ Len(L) = 2 => cache = None
            /\ Cardinality(SendsOf(L)) <= 2
            /\ (Len(L) >= 3 /\ L[3].e = "scan") =>
                 LET f == L[3].cid IN
                 /\ f \in FreshIds
                 /\ Len(L) >= 4 => L[4].e = "set" /\ L[4].cid = f
                 /\ Len(L) = 4 => CLIENT_ID[i] = f
                 /\ Len(L) >= 5 => L[5].e = "persist" /\ L[5].cid = f
                 /\ Len(L) = 5 => CLIENT_ID[i] = f /\ cache = f /\ dj[i].pc = "send"
                 /\ Len(L) >= 6 => L[6].e = "send" /\ L[6].cid = f /\ SameRequest(L[6], L[1])
                 /\ (Len(L) >= 6 /\ L[6].status = 200) =>
                      /\ Len(L) = 6
                      /\ dj[i].pc = "returned"
                      /\ dj[i].res = Returned(L[6].got)
                      /\ CLIENT_ID[i] = f
                      /\ cache = f

C1_Witness ==
    \E i \in Inst :
        /\ Len(log[i]) = 6
        /\ log[i][1].status = 401
        /\ log[i][1].cid = DEFAULT_CLIENT_ID
        /\ log[i][6].status = 200
        /\ log[i][6].cid = "idB"
        /\ log[i][6].secret = "s1"
        /\ dj[i].req.qcid = DEFAULT_CLIENT_ID
        /\ dj[i].res = Returned(UrlPayload("u2"))

\* a call whose first send and whose retry were both rejected with 401/403
RejectedTwice(i) ==
    /\ Len(log[i]) >= 6
    /\ log[i][1].e = "send" /\ log[i][1].status \in {401, 403}
    /\ log[i][6].e = "send" /\ log[i][6].status \in {401, 403}

(* C2: a call whose first send and whose single retry are both rejected with
   401/403 ends by raising an error to its caller; it never returns. *)
C2_RejectedTwiceRaises ==
    \A i \in Inst : (RejectedTwice(i) /\ CallOver(i)) => dj[i].pc = "raised"

(* C3: when the bootstrap page was downloaded and none of its scripts embeds
   an identifier, the refresh raises 'Unable to extract client id', nothing
   else is tried after the scan, and self._CLIENT_ID is the id the rejected
   send carried. *)
C3_NoIdentifierIsFatal ==
    \A i \in Inst :
        (dj[i].page = "ok" /\ ~dj[i].anyId) =>
            LET L == log[i] IN
            /\ dj[i].pc = "raised"
            /\ dj[i].res = Raised(EUnableClientId, 0)
            /\ L[Len(L)].e = "scanfail"
            /\ L[Len(L) - 1].e = "invalidate"
            /\ L[Len(L) - 2].e = "send"
            /\ CLIENT_ID[i] = L[Len(L) - 2].cid
            /\ CLIENT_ID[i] \in Ids

C3_Witness ==
    \E i \in Inst :
        /\ dj[i].page = "ok"
        /\ ~dj[i].anyId
        /\ Len(log[i]) = 8
        /\ dj[i].pc = "raised"
        /\ CLIENT_ID[i] = "idA"

\* an operation of instance i has just ended in a fatal error
EndedFatally(i) ==
    \/ dj[i].pc = "raised"
    \/ dj[i].pc = "returned" /\ RejectedTwice(i)
    \/ phase[i] = "failed"

(* C5 as claimed: after an operation that ends in a fatal error both the
   cached id and the in-memory id are non-empty ids. *)
C5_CacheAndMemoryUsable ==
    \A i \in Inst : EndedFatally(i) => (cache \in Ids /\ CLIENT_ID[i] \in Ids)

(* C5 as amended: after an operation that ends in a fatal error the in-memory
   id is a non-empty id and the cache holds a non-empty id or the invalidation
   marker None, which _initialize_pre_login replaces by the default id; every
   instance initialised afterwards holds a non-empty id. *)
C5_CredentialStaysUsable ==
    /\ \A i \in Inst :
         EndedFatally(i) =>
            /\ CLIENT_ID[i] \in Ids
            /\ cache \in Ids \cup {None}
            /\ InitializePreLoginValue(cache) \in Ids
    /\ \A j \in Inst : phase[j] # "new" => CLIENT_ID[j] \in Ids

C5_Witness ==
    \E i, j \in Inst :
        /\ i # j
        /\ dj[i].pc = "raised"
        /\ dj[i].res.err = EUnableClientId
        /\ cache = None
        /\ CLIENT_ID[i] = "idA"
        /\ phase[j] = "ready"
        /\ CLIENT_ID[j] = DEFAULT_CLIENT_ID

(* C6: every initialised instance holds a non-empty client id, and a send of
   _download_json carries as client_id the id the instance holds when it
   sends, whatever client_id the caller put in the query. *)
C6_SendCarriesCurrentId ==
    \A i \in Inst :
        /\ phase[i] # "new" => CLIENT_ID[i] \in Ids
        /\ (log[i] # <<>> /\ log[i][Len(log[i])].e = "send") =>
              /\ log[i][Len(log[i])].cid = CLIENT_ID[i]
              /\ log[i][Len(log[i])].cid \in Ids

C6_Witness ==
    \E i \in Inst :
        /\ Len(log[i]) = 6
        /\ log[i][6].e = "send"
        /\ log[i][6].cid = "idA"
        /\ dj[i].req.qcid = "idB"
        /\ cache = "idA"


-----------------------------------------------------------------------------
(* Properties of the session token                                          *)

OkProbes == {k \in DOMAIN probes : probes[k].ok}

(* C7: the Authorization header is present exactly when a verification probe
   has succeeded, it holds the token of that probe, and at most one probe
   ever succeeds in a session: once set, the header is neither replaced nor
   removed by a later initialisation, login or cookie read of any instance. *)
C7_TokenSetOnceAfterVerification ==
    /\ Cardinality(OkProbes) <= 1
    /\ HEADERS # None <=> OkProbes # {}
    /\ \A k \in OkProbes : probes[k].token = HEADERS /\ k = Len(probes)

C7_Witness ==
    /\ cfg.username = "oauth"
    /\ cfg.cookie = "tokC"
    /\ Len(probes) = 2
    /\ ~probes[1].ok
    /\ HEADERS = "tokC"
    /\ \A i \in Inst : phase[i] = "ready"

(* C8: a failed verification probe emits the invalid-token warning and sets
   no header; it never makes initialisation fail (only an unsupported
   username does); while no probe has succeeded every request is sent
   without Authorization header, carrying a client id. *)
C8_FailedProbeDegradesToAnonymous ==
    /\ (\E k \in DOMAIN probes : ~probes[k].ok) => WInvalidToken \in warnings
    /\ \A i \in Inst : phase[i] = "failed" => cfg.username \notin {None, "oauth"}
    /\ OkProbes = {} =>
         /\ HEADERS = None
         /\ \A i \in Inst : \A k \in SendsOf(log[i]) :
               log[i][k].hdr = None /\ log[i][k].cid \in Ids

C8_Witness ==
    \E i \in Inst :
        /\ cfg.username = "oauth"
        /\ cfg.cookie = "tokC"
        /\ probes = <<[token |-> "tokP", ok |-> FALSE], [token |-> "tokC", ok |-> FALSE]>>
        /\ phase[i] = "call"
        /\ dj[i].pc = "returned"
        /\ dj[i].res.t = "value"
        /\ log[i][1].hdr = None

(* C27: in one session at most one verification probe is sent, however many
   instances are initialised, whether the probe succeeds or fails, and
   whether the token is the password of an 'oauth' login, the cookie, or
   both are given. *)
C27_ProbeSentAtMostOnce == Len(probes) <= 1

-----------------------------------------------------------------------------
(* Properties of _extract_info_dict                                         *)

(* C4: when the fetch of a transcoding's indirection JSON ends with
   'Unable to extract client id' (a 401/403 whose refresh found no id), the
   extraction fails with that error instead of skipping the transcoding. *)
C4_NoIdentifierAbortsExtraction ==
    [][\A i \in Inst :
         (/\ ex[i].pc = "stream"
          /\ dj[i].pc = "raised"
          /\ dj[i].res.err = EUnableClientId
          /\ ex'[i] # ex[i])
         => ex'[i].pc = "failed" /\ ex'[i].err = EUnableClientId]_vars

(* C10: the formats collected by one _extract_info_dict call have pairwise
   distinct URLs, none of them empty or absent, and there is exactly one
   format for every distinct URL the original download and the visited
   transcodings resolved to. *)
C10_DistinctNonEmptyUrls ==
    \A i \in Inst :
        LET f == ex[i].formats IN
        /\ \A a \in DOMAIN f : f[a].url \notin {"", None}
        /\ \A a, b \in DOMAIN f : a # b => f[a].url # f[b].url
        /\ Len(f) = Cardinality(Range(ex[i].resolved) \ {None})
        /\ ex[i].format_urls = {f[a].url : a \in DOMAIN f}

\* two transcodings resolved to the same URL and the call returned one format
C10_Witness ==
    \E i \in Inst :
        /\ ex[i].pc = "done"
        /\ Len(VisitedTranscodings(ex[i].info)) = 2
        /\ ex[i].resolved = <<"u2", "u2">>
        /\ Len(ex[i].formats) = 1

(* C11: among the formats collected by one _extract_info_dict call no two
   have the same format_id. *)
C11_FormatIdsUnique ==
    \A i \in Inst :
        LET f == ex[i].formats IN
        \A a, b \in DOMAIN f : a # b => f[a].format_id # f[b].format_id

(* C13: every request sent for a track (the info or resolve request, the
   original-download request, every transcoding request, first send and retry
   alike) carries the secret token of the locator, unchanged, or none when the
   locator has none. *)
C13_SecretTokenOnEveryRequest ==
    \A i \in Inst :
        ex[i].pc \in {"info", "download", "stream"} =>
            /\ dj[i].req.secret = ex[i].token
            /\ \A k \in SendsOf(log[i]) : log[i][k].secret = ex[i].token

\* a transcoding request of a track with a secret token, sent again after a refresh
C13_Witness ==
    \E i \in Inst :
        /\ ex[i].pc = "stream"
        /\ ex[i].token = "s1"
        /\ Cardinality(SendsOf(log[i])) = 2
        /\ \A k \in SendsOf(log[i]) : log[i][k].secret = "s1"
        /\ dj[i].pc = "returned"
        /\ dj[i].res.t = "value"

(* C14: a call of _extract_info_dict that comes to its end fails with the
   geo restriction error exactly when it collected no format and the policy
   of the payload is BLOCK; with a format collected, or another policy, it
   returns a record. *)
C14_GeoRestrictedIffBlockedAndEmpty ==
    \A i \in Inst :
        LET blocked == ex[i].formats = <<>> /\ ex[i].info.policy = "BLOCK" IN
        /\ (ex[i].pc = "failed" /\ ex[i].err = EGeo) => blocked
        /\ ex[i].pc = "done" => ~blocked
        /\ (ex[i].pc = "loop" /\ ex[i].k > Len(VisitedTranscodings(ex[i].info)))
             => Finished(ex[i]).pc = (IF blocked THEN "failed" ELSE "done")

\* a record is returned for a blocked track of which a format was collected
C14_Witness ==
    \E i \in Inst :
        /\ ex[i].pc = "done"
        /\ ex[i].info.policy = "BLOCK"
        /\ Len(ex[i].formats) = 1

\* the default selector accepts exactly the six default keys
DefaultAccepts(key) == key \in Range(DEFAULT_FORMATS)

\* the formats of the frame that came from transcodings
TranscodingFormats(frame) ==
    SelectSeq(frame.formats, LAMBDA f : f.format_id # DownloadFormat("u1").format_id)

(* C21: within _extract_info_dict (default selector) a transcoding request is
   only ever in flight for a transcoding whose identifier the selector
   accepts, every format that came from a transcoding bears the identifier of
   an accepted transcoding already visited, and there are no more of them
   than accepted transcodings visited. *)
C21_GateBeforeFetch ==
    \A i \in Inst :
        LET visited == VisitedTranscodings(ex[i].info)
            upto == IF ex[i].pc \in {"loop", "done", "failed"} THEN ex[i].k - 1 ELSE ex[i].k
            accepted == {j \in 1..Len(visited) : j <= upto /\ DefaultAccepts(Identifier(visited[j]))}
            tf == TranscodingFormats(ex[i])
        IN ex[i].ie = "Soundcloud" =>
            /\ dj[i].req.kind = "stream" =>
                  /\ dj[i].req.url \in 1..Len(visited)
                  /\ DefaultAccepts(Identifier(visited[dj[i].req.url]))
            /\ \A a \in DOMAIN tf :
                  \E j \in accepted : IsPrefix(Identifier(visited[j]), tf[a].format_id)
            /\ Len(tf) <= Cardinality(accepted)

\* the first transcoding was refused without a request and the second is being fetched
C21_Witness ==
    \E i \in Inst :
        /\ ex[i].pc = "stream"
        /\ VisitedTranscodings(ex[i].info) = <<T_hls_aes_aac, T_http_mp3>>
        /\ ~ex[i].info.downloadable
        /\ ex[i].k = 2
        /\ ex[i].resolved = <<>>
        /\ dj[i].req.url = 2

S_download == DownloadFormat("u1").format_id

(* C23: for a downloadable payload the original-download request is the
   first thing _extract_info_dict sends, before any transcoding is visited;
   a 'download' format is the first of the formats and its quality, 10, is
   above that of every other format; and whatever comes of the download
   request, the extraction goes on to the transcodings. *)
C23_DownloadProbeFirstAndHarmless ==
    /\ [](\A i \in Inst : ex[i].ie = "Soundcloud" =>
            /\ ex[i].pc = "download" =>
                  /\ ex[i].formats = <<>> /\ ex[i].resolved = <<>> /\ ex[i].k = 0
                  /\ dj[i].req.kind = "download"
            /\ \A a \in DOMAIN ex[i].formats :
                  ex[i].formats[a].format_id = S_download =>
                      /\ a = 1
                      /\ ex[i].formats[a].quality = 10
                      /\ \A b \in DOMAIN ex[i].formats :
                            b # a => ex[i].formats[b].quality < 10)
    /\ [][\A i \in Inst :
            /\ (ex[i].pc = "info" /\ ex'[i].pc \in {"download", "loop"}) =>
                  (ex'[i].pc = "download" <=> ex'[i].info.downloadable)
            /\ (ex[i].pc = "download" /\ ex'[i] # ex[i]) => ex'[i].pc = "loop"
       ]_vars

\* the end of a transcoding fetch is seen by the loop in this step
StreamFetchSeen(i) == ex[i].pc = "stream" /\ CallOver(i) /\ ex'[i] # ex[i]

\* the loop goes on to the next transcoding without a format for this one
TranscodingSkipped(i) ==
    /\ ex'[i].pc = "loop"
    /\ ex'[i].k = ex[i].k + 1
    /\ ex'[i].formats = ex[i].formats

(* C24: a transcoding fetch answered with 429 never ends the extraction: the
   rate-limit warning is given and the fetch is repeated while attempts are
   left, after which the transcoding is skipped and the loop goes on; any
   other failure of the fetch is warned about, is not followed by another
   request for that transcoding, and the transcoding is skipped. *)
C24_RateLimitRetriedOthersWarned ==
    /\ [][\A i \in Inst : StreamFetchSeen(i) =>
            LET res == dj[i].res IN
            /\ ex'[i].pc # "failed"
            /\ (res.t = "raise" /\ res.err = EHttp /\ res.status = 429) =>
                  /\ WRateLimit \in warnings'
                  /\ IF ex[i].attempt <= ExtractorRetries
                     THEN /\ ex'[i].pc = "stream" /\ ex'[i].k = ex[i].k
                          /\ dj'[i].req = dj[i].req /\ dj'[i].pc = "send"
                     ELSE TranscodingSkipped(i)
            /\ (res.t = "raise" /\ ~(res.err = EHttp /\ res.status = 429)) =>
                  WError \in warnings' /\ TranscodingSkipped(i)
       ]_vars
    /\ [](\A i \in Inst : ex[i].pc = "stream" =>
            \A k \in SendsOf(log[i]) : log[i][k].status \notin {200, 429} =>
                /\ \A m \in SendsOf(log[i]) : m <= k
                /\ CallOver(i) => dj[i].pc = "raised")

(* C25: each counter of the record is None exactly when the payload has no
   such counter, and else is the payload's integer, 0 included; like_count is
   favoritings_count, or likes_count when favoritings_count is absent. *)
C25_CountersNullIffAbsent ==
    LET Reported(c) == IF c.given THEN Count(c.n) ELSE NoCount IN
    sel.done =>
        /\ sel.record.view_count = Reported(sel.info["playback"])
        /\ sel.record.comment_count = Reported(sel.info["comment"])
        /\ sel.record.repost_count = Reported(sel.info["reposts"])
        /\ sel.record.like_count = IF sel.info["favoritings"].given
                                   THEN Reported(sel.info["favoritings"])
                                   ELSE Reported(sel.info["likes"])

\* instance j sends the first request of a call in this step
FirstSend(j) ==
    /\ dj[j].pc = "send" /\ dj[j].iter = 0
    /\ Len(log'[j]) = Len(log[j]) + 1
    /\ log'[j][Len(log'[j])].e = "send"

(* C26: the client id is one value for the whole process: the first send of
   every request, whichever instance makes it and whenever that instance was
   initialised, carries the id the cache holds, which is the id of the last
   refresh when there was one (the cache is None only after a refresh that
   failed, or before any id was ever found). *)
C26_ClientIdIsProcessWide ==
    [][\A j \in Inst : (FirstSend(j) /\ cache # None) =>
            log'[j][Len(log'[j])].cid = cache]_vars

\* some send of the call in progress was not answered with 200
SomeSendFailed(i) == \E k \in SendsOf(log[i]) : log[i][k].status # 200

(* C28: a call of _download_json with fatal=False never raises: when a send
   of it failed and the call is over, it has returned a falsy value and a
   warning was given; so the extraction never fails in the original-download
   probe. *)
C28_NonFatalNeverRaises ==
    /\ [](\A i \in Inst : (dj[i].nonFatal /\ CallOver(i)) =>
            /\ dj[i].pc = "returned"
            /\ (SomeSendFailed(i) /\ dj[i].res.t # "value") =>
                  dj[i].res = ReturnedFalse /\ WError \in warnings)
    /\ [][\A i \in Inst : ex[i].pc = "download" => ex'[i].pc # "failed"]_vars

\* string m occurs in string str
Contains(str, m) == \E k \in 0..(Len(str) - Len(m)) : SubSeq(str, k + 1, k + Len(m)) = m

(* C12: whichever entry point received it, a payload with an 'errors' list
   makes the call fail with the error that carries every error_message of the
   list, joined in order; nothing is produced from such a payload. *)
C12_ErrorsListRaises ==
    \A i \in Inst :
        ex[i].info.errors.given =>
            /\ ex[i].pc = "failed"
            /\ ex[i].err \in {ESetErrors, ERelatedErrors}
            /\ ex[i].msg = JoinComma(ex[i].info.errors.list)
            /\ \A m \in Range(ex[i].info.errors.list) : Contains(ex[i].msg, m)

-----------------------------------------------------------------------------
(* Properties of the paginated collector                                    *)

\* the items of the pages received so far, in page order
RECURSIVE Flatten(_)
Flatten(pages) ==
    IF pages = <<>> THEN <<>> ELSE Head(pages).collection \o Flatten(Tail(pages))

\* the URL that led to page k of the pages received
HrefOfPage(frame, k) == IF k = 1 THEN FirstHref ELSE frame.served[k - 1].next_href

\* as many entries as items, entry j made from item j; only the last page
\* received may be without next_href, and when the collector is done it is,
\* and the last request was the one that fetched it
PagesYieldedInOrder(frame) ==
    LET items == Flatten(frame.served) IN
    /\ Len(frame.yielded) = Len(items)
    /\ \A j \in 1..Len(items) :
          IF items[j].permalink
          THEN ~frame.yielded[j].none /\ frame.yielded[j].id = items[j].id
          ELSE frame.yielded[j].none
    /\ \A k \in 1..Len(frame.served) :
          /\ \A j \in 1..Len(frame.served[k].collection) :
                frame.served[k].collection[j].id = <<k, j>>
          /\ k < Len(frame.served) => frame.served[k].next_href # NoHref
    /\ frame.pc = "done" =>
          /\ frame.served # <<>>
          /\ frame.served[Len(frame.served)].next_href = NoHref
          /\ frame.reqs[Len(frame.reqs)].href = HrefOfPage(frame, Len(frame.served))

(* C15: over a chain of pages of which only the last has no next_href the
   collector yields one entry per item, in page order and in item order, asks
   for no page after the one without next_href, and comes to an end. *)
C15_YieldsEveryItemAndTerminates ==
    /\ [](\A i \in Inst : ex[i].ie = "entries" => PagesYieldedInOrder(ex[i]))
    /\ \A i \in Inst : (ex[i].pc = "page") ~> (ex[i].pc \in {"done", "failed"})

\* pages of 2, 2 and 1 items gave 5 entries
C15_Witness ==
    \E i \in Inst :
        /\ ex[i].pc = "done"
        /\ Len(ex[i].served) = 3
        /\ Len(ex[i].served[1].collection) = 2
        /\ Len(ex[i].served[2].collection) = 2
        /\ Len(ex[i].served[3].collection) = 1
        /\ Len(ex[i].yielded) = 5

\* the end of the page fetch of instance i is seen by the collector in this step
PageFetchSeen(i) == ex[i].pc = "page" /\ CallOver(i) /\ ex'[i] # ex[i]

Is502(res) == res.t = "raise" /\ res.err = EHttp /\ res.status = 502

(* C16: a page is fetched at most ExtractorRetries + 1 times: a fetch that
   fails with HTTP 502 is repeated for the same page while attempts are left,
   and the 502 propagates once they are used up; a fetch that succeeds on any
   attempt gives the collector that page's data. *)
C16_BoundedRetryOn502 ==
    [][\A i \in Inst : PageFetchSeen(i) =>
          LET res == dj[i].res IN
          /\ ex[i].attempt <= ExtractorRetries + 1
          /\ Is502(res) /\ ex[i].attempt <= ExtractorRetries =>
                /\ ex'[i].pc = "page"
                /\ ex'[i].attempt = ex[i].attempt + 1
                /\ ex'[i].href = ex[i].href
                /\ ex'[i].served = ex[i].served
                /\ dj'[i].req = dj[i].req
          /\ Is502(res) /\ ex[i].attempt = ExtractorRetries + 1 =>
                /\ ex'[i].pc = "failed"
                /\ ex'[i].err = EHttp
                /\ ex'[i].status = 502
          /\ res.t = "value" =>
                ex'[i].served = Append(ex[i].served,
                                       [collection |-> res.v.collection,
                                        next_href |-> res.v.next_href])
      ]_vars

\* the first page was served on the second attempt
C16_Witness ==
    \E i \in Inst :
        /\ Len(ex[i].reqs) >= 2
        /\ ex[i].reqs[1].href = FirstHref
        /\ ex[i].reqs[2].href = FirstHref
        /\ Len(ex[i].served) >= 1
        /\ ex[i].served[1].collection # <<>>

\* send k of the page fetch in progress failed, and not with HTTP 502
FailedOtherThan502(L, k) == L[k].e = "send" /\ L[k].status \notin {200, 502}

(* C17: in the paginated collector a page fetch that fails with anything but
   HTTP 502 is not followed by another request of that page, and when the
   fetch is over the collector has failed with that very failure. *)
C17_OnlyBadGatewayIsRetried ==
    \A i \in Inst : ex[i].ie = "entries" =>
        \A k \in DOMAIN log[i] : FailedOtherThan502(log[i], k) =>
            /\ \A m \in SendsOf(log[i]) : m <= k
            /\ CallOver(i) =>
                  /\ dj[i].pc = "raised"
                  /\ dj[i].res.status = log[i][k].status

\* every request made so far: the first page with offset, a later page without,
\* and each for the URL that the page before it gave
RequestsFollowCursor(frame) ==
    \A r \in DOMAIN frame.reqs :
        LET q == frame.reqs[r] IN
        /\ q.offset <=> q.href = FirstHref
        /\ q.href[1] <= Len(frame.served) + 1
        /\ q.href = HrefOfPage(frame, q.href[1])
        /\ r > 1 => q.href[1] \in {frame.reqs[r - 1].href[1], frame.reqs[r - 1].href[1] + 1}

\* a request for another page is made in this step
NextPageRequested(i) ==
    /\ ex[i].ie = "entries" /\ ex'[i].ie = "entries"
    /\ Len(ex'[i].reqs) = Len(ex[i].reqs) + 1
    /\ ex'[i].reqs[Len(ex'[i].reqs)].href # ex[i].href

(* C22: every request of the collector after those for the first page is for
   the next_href of the page received last, is made in the step in which that
   page is received and its entries are yielded, and is the request sent; the
   offset goes with the requests for the first page and with no other. *)
C22_FollowsNextHrefWithoutOffset ==
    /\ [](\A i \in Inst : ex[i].ie = "entries" => RequestsFollowCursor(ex[i]))
    /\ [][\A i \in Inst : NextPageRequested(i) =>
            LET new == ex'[i].reqs[Len(ex'[i].reqs)]
                got == ex'[i].served
            IN /\ Len(got) = Len(ex[i].served) + 1
               /\ dj[i].res.t = "value"
               /\ new.href = dj[i].res.v.next_href
               /\ new.href = got[Len(got)].next_href
               /\ Len(ex'[i].yielded) = Len(Flatten(got))
               /\ ~new.offset
               /\ dj'[i].req.url = new.href
               /\ dj'[i].pc = "send"
       ]_vars

\* the first page was asked for twice with offset, the second page without
C22_Witness ==
    \E i \in Inst :
        /\ Len(ex[i].reqs) = 3
        /\ ex[i].reqs[1] = [href |-> FirstHref, offset |-> TRUE]
        /\ ex[i].reqs[2] = [href |-> FirstHref, offset |-> TRUE]
        /\ ex[i].reqs[3] = [href |-> <<2, "b">>, offset |-> FALSE]
        /\ Len(ex[i].served) = 2

-----------------------------------------------------------------------------
(* Properties of the search collector                                       *)

\* the items of the pages received that are not empty
NonEmptyItems(frame) == SelectSeq(Flatten(frame.served), LAMBDA item : item.kind # "empty")

(* C29: the flat extraction of an item of a search page never fails and
   sends nothing, whatever the policy of the item: while the items of a page
   are gone through no request is in flight and the collector does not fail,
   and a search for all results that has come to its end has yielded one
   entry for every non-empty item of every page it fetched. *)
C29_FlatExtractionNeverFails ==
    /\ [](\A i \in Inst : ex[i].ie = "search" =>
            /\ ex[i].pc = "items" => dj[i].pc = "idle"
            /\ ex[i].err # EGeo
            /\ (ex[i].pc = "done" /\ ex[i].want.inf) =>
                  Len(ex[i].yielded) = Len(NonEmptyItems(ex[i])))
    /\ [][\A i \in Inst : ex[i].pc = "items" => ex'[i].pc # "failed"]_vars

\* min(n, 200), and 200 for all results
CappedLimit(want) == IF want.inf THEN 200 ELSE IF want.n <= 200 THEN want.n ELSE 200

(* C30: a search for n results asks for a first page of min(n, 200) items
   (200 when all results are wanted) and follows next_href after it; it never
   yields more than n entries; and once n entries are yielded it sends no
   request and yields nothing more. *)
C30_SearchStopsAtN ==
    /\ [](\A i \in Inst : ex[i].ie = "search" =>
            /\ ex[i].reqs[1].limit = CappedLimit(ex[i].want)
            /\ \A r \in DOMAIN ex[i].reqs :
                  r > 1 => ex[i].reqs[r].href = ex[i].served[r - 1].next_href
            /\ ~ex[i].want.inf => Len(ex[i].yielded) <= ex[i].want.n)
    /\ [][\A i \in Inst :
            (ex[i].ie = "search" /\ ~ex[i].want.inf /\ Len(ex[i].yielded) >= ex[i].want.n) =>
                /\ dj'[i] = dj[i]
                /\ ex'[i].ie = "search" =>
                      /\ ex'[i].reqs = ex[i].reqs
                      /\ ex'[i].yielded = ex[i].yielded
                      /\ ex'[i].pc = "done"
       ]_vars

\* two results were wanted, the first page gave them and named a next page,
\* which was not asked for
C30_Witness ==
    \E i \in Inst :
        /\ ex[i].ie = "search"
        /\ ex[i].want = Results(2)
        /\ ex[i].pc = "done"
        /\ Len(ex[i].yielded) = 2
        /\ Len(ex[i].served) = 1
        /\ ex[i].served[1].next_href # NoHref
        /\ Len(ex[i].reqs) = 1

-----------------------------------------------------------------------------
(* Properties of concurrent refreshes                                       *)

EventsOf(L, e) == {k \in DOMAIN L : L[k].e = e}

\* instance i has refreshed, and every scan it made found an id
RefreshedWell(i) == EventsOf(log[i], "persist") # {} /\ EventsOf(log[i], "scanfail") = {}

\* the ids the refreshes of the two extractions obtained
Obtained == UNION {{log[i][k].cid : k \in EventsOf(log[i], "persist")} : i \in Inst}

(* C18: when the calls of two extractions refresh the client id with their
   steps interleaved in any way and every scan finds an id, then once both
   calls are over the cache holds an id one of the refreshes obtained (it is
   not None), and every send an extraction makes after a refresh of its own
   carries the id that refresh found, an id of the bootstrap scripts. *)
C18_ConcurrentRefreshLeavesAnId ==
    /\ (\A i \in Inst : RefreshedWell(i) /\ CallOver(i)) =>
          cache \in Obtained /\ cache \in FreshIds
    /\ \A i \in Inst : \A k \in SendsOf(log[i]) :
          k > 1 => /\ log[i][k - 1].e = "persist"
                   /\ log[i][k].cid = log[i][k - 1].cid
                   /\ log[i][k].cid \in FreshIds

\* both refreshed, each found another id, the cache holds the id of the first
\* extraction and the second went on with its own
C18_Witness ==
    /\ \A i \in Inst : RefreshedWell(i) /\ CallOver(i)
    /\ Len(log[1]) = 6 /\ Len(log[2]) = 6
    /\ log[1][5].cid = "idA" /\ log[2][5].cid = "idB"
    /\ log[2][6].cid = "idB" /\ log[2][6].status = 200
    /\ cache = "idA"

-----------------------------------------------------------------------------
(* Properties of the classification                                         *)

(* C19: whatever a raw transcoding declares as its protocol and whatever
   its URL, the protocol of the identity handed to _is_requested is one of
   http, hls, hls-aes. *)
C19_ProtocolIsNormalized ==
    sel.done => sel.protocol \in {S_http, S_hls, S_hls_aes}

\* ext = leading token of the preset when a known extension, else from the MIME type
ExtensionAsRuled ==
    sel.ext = IF Raw.preset # <<>> /\ Raw.preset[1] \in KnownExtensions
              THEN Raw.preset[1]
              ELSE MimeTypeToExt(Raw.mime)

(* C20: for every raw transcoding a declared protocol 'progressive' gives
   http, a URL containing '/encrypted-hls' gives hls-aes whatever is
   declared, the extension is the leading token of the preset when that is a
   known extension and else comes from the MIME type, and the key is
   '<protocol>_<extension>'. *)
C20_KeyFollowsRules ==
    sel.done =>
        /\ Raw.protocol = S_progressive => sel.protocol = S_http
        /\ UrlContains(Raw.url, S_encrypted_hls) => sel.protocol = S_hls_aes
        /\ ExtensionAsRuled
        /\ sel.key = sel.protocol \o US \o sel.ext

(* C20 amended: the URL comes first: one containing '/encrypted-hls' gives
   hls-aes whatever is declared, and one containing '/hls' and not
   '/encrypted-hls' gives hls whatever is declared; with neither in the URL
   'progressive' gives http, 'encrypted-hls' gives hls-aes and anything
   else, or nothing, stays as declared; the extension is the leading token
   of the preset when that is a known extension and else comes from the MIME
   type; the key is '<protocol>_<extension>' when both are non-empty and
   else the one of the two that is non-empty, or nothing. *)
C20_KeyFollowsRulesUrlFirst ==
    sel.done =>
        /\ sel.protocol =
              IF UrlContains(Raw.url, S_encrypted_hls) THEN S_hls_aes
              ELSE IF UrlContains(Raw.url, S_hls) THEN S_hls
              ELSE IF Raw.protocol = S_progressive THEN S_http
              ELSE IF Raw.protocol = S_encrypted_hls THEN S_hls_aes
              ELSE Raw.protocol
        /\ ExtensionAsRuled
        /\ sel.key = IF sel.protocol # <<>> /\ sel.ext # <<>>
                     THEN sel.protocol \o US \o sel.ext
                     ELSE sel.protocol \o sel.ext

\* 'progressive' was declared for a URL with '/hls': the key is hls_mp3
C20_Witness ==
    /\ sel.done
    /\ Raw.protocol = S_progressive
    /\ UrlContains(Raw.url, S_hls)
    /\ Raw.preset # <<>> /\ Raw.preset[1] = S_mp3
    /\ sel.key = hls_mp3

-----------------------------------------------------------------------------
(* Properties of _is_requested                                              *)

\* the configured patterns, 'default' when the configuration is absent
ConfiguredPatterns == IF cfg.formats.given THEN Range(cfg.formats.pats) ELSE {S_default}

\* the whole key matches the pattern: '*' stands for any run of characters
\* (of characters other than a line feed unless lf), every other character
\* for itself
RECURSIVE Glob(_, _, _)
Glob(p, key, lf) ==
    IF p = <<>> THEN key = <<>>
    ELSE IF Head(p) = "*"
         THEN \/ Glob(Tail(p), key, lf)
              \/ /\ key # <<>>
                 /\ lf \/ Head(key) # NL
                 /\ Glob(p, Tail(key), lf)
         ELSE /\ key # <<>>
              /\ Head(key) = Head(p)
              /\ Glob(Tail(p), Tail(key), lf)

\* some configured pattern matches the key, 'default' standing for the six
\* default identifiers
SomePatternMatches(key, lf) ==
    \E p \in ConfiguredPatterns :
        IF p = S_default THEN key \in Range(DEFAULT_FORMATS) ELSE Glob(p, key, lf)

(* C9 as stated: a key is accepted iff the whole key matches a configured
   pattern, '*' matching any run of characters, the other characters being
   literal and 'default' (also the absent configuration) standing for the
   six default identifiers. *)
C9_AcceptsIffSomePatternMatches ==
    sel.done => (sel.res <=> SomePatternMatches(sel.key, TRUE))

(* C9 as the code has it: '*' matches any run of characters other than a line
   feed, and under an empty list of patterns the empty key, and only it, is
   accepted; the configuration [hls_aac, http_mp3] accepts exactly those two. *)
C9_AcceptsIffSomePatternMatchesOnALine ==
    sel.done =>
        /\ sel.res <=> \/ SomePatternMatches(sel.key, FALSE)
                       \/ ConfiguredPatterns = {} /\ sel.key = <<>>
        /\ cfg.formats = [given |-> TRUE, pats |-> <<hls_aac, http_mp3>>]
             => (sel.res <=> sel.key \in {hls_aac, http_mp3})

\* [hls_aac, http_mp3] refuses a key that begins with hls_aac
C9_Witness ==
    /\ sel.done
    /\ cfg.formats = [given |-> TRUE, pats |-> <<hls_aac, http_mp3>>]
    /\ sel.key = hls_aac \o <<"x">>
    /\ ~sel.res

====
